---- MODULE Spec2Model ----
(***************************************************************************)
(* The execution pipeline of audiobook-maker: the chunker, the checkpoint  *)
(* store (checkpoint.py), and main() of app.py with its sequential and     *)
(* overlapped (overlap3) inference loops, the chapter derivation, export   *)
(* and checkpoint cleanup.                                                 *)
(*                                                                         *)
(* Texts are sequences of one-character strings.  An audio buffer is a     *)
(* record [dtype, data]; a float sample x is held as the integer 2*x       *)
(* (so 3 is 1.5 and -1 is -0.5), an int16 sample as itself.                *)
(***************************************************************************)
EXTENDS Integers, Sequences, FiniteSets, TLC

(***************************************************************************)
(* Bounds of the model.                                                    *)
(***************************************************************************)
MaxRuns == 2        \* invocations of main() on one output path
MaxBuffers == 1     \* buffers one backend.generate call yields at most

None == [kind |-> "None"]

Min(a, b) == IF a < b THEN a ELSE b
Max(a, b) == IF a > b THEN a ELSE b

RECURSIVE Flatten(_)
Flatten(ss) == IF ss = <<>> THEN <<>> ELSE Head(ss) \o Flatten(Tail(ss))

(***************************************************************************)
(* Chunker: split_text_to_chunks (app.py 308-377).                         *)
(***************************************************************************)
WS == {" ", "\n"}
Punct == {".", "!", "?"}

RECURSIVE LStrip(_)
LStrip(s) == IF s # <<>> /\ Head(s) \in WS THEN LStrip(Tail(s)) ELSE s

RECURSIVE RStrip(_)
RStrip(s) ==
  IF s # <<>> /\ s[Len(s)] \in WS THEN RStrip(SubSeq(s, 1, Len(s) - 1)) ELSE s

strip(s) == RStrip(LStrip(s))

\* re.split(r"\n+", text): the pieces between maximal runs of newlines.
RECURSIVE SplitLines(_, _, _)
SplitLines(s, i, cur) ==
  IF i > Len(s) THEN <<cur>>
  ELSE IF s[i] = "\n"
       THEN IF i > 1 /\ s[i - 1] = "\n"
            THEN SplitLines(s, i + 1, cur)
            ELSE <<cur>> \o SplitLines(s, i + 1, <<>>)
       ELSE SplitLines(s, i + 1, Append(cur, s[i]))

RECURSIVE SkipWS(_, _)
SkipWS(s, i) == IF i <= Len(s) /\ s[i] \in WS THEN SkipWS(s, i + 1) ELSE i

\* re.split(r"(?<=[.!?])\s+", paragraph): split at each maximal whitespace
\* run that directly follows terminal punctuation.
RECURSIVE SplitSentences(_, _, _)
SplitSentences(s, i, cur) ==
  IF i > Len(s) THEN <<cur>>
  ELSE IF s[i] \in WS /\ i > 1 /\ s[i - 1] \in Punct
       THEN <<cur>> \o SplitSentences(s, SkipWS(s, i), <<>>)
       ELSE SplitSentences(s, i + 1, Append(cur, s[i]))

\* [sentence[start:start + chunk_chars] for start in range(0, len, chunk_chars)]
RECURSIVE HardSplit(_, _)
\* A sentence longer than the limit kept whole.
HardSplitWhole(sentence, chunk_chars) == <<sentence>>

HardSplit(sentence, chunk_chars) ==
  IF Len(sentence) <= chunk_chars THEN <<sentence>>
  ELSE <<SubSeq(sentence, 1, chunk_chars)>>
       \o HardSplit(SubSeq(sentence, chunk_chars + 1, Len(sentence)), chunk_chars)

\* The buffer replaced by the new piece instead of joined with it.
JoinDropping(a, b) == strip(b)

\* f"{a} {b}".strip()
JoinStrip(a, b) == strip(a \o <<" ">> \o b)

\* The loop of split_oversized_paragraph over the sentences from index i on,
\* with the pieces emitted so far and the sentence buffer.
RECURSIVE SentenceLoop(_, _, _, _, _)
SentenceLoop(sentences, i, pieces, sentence_buffer, chunk_chars) ==
  IF i > Len(sentences)
  THEN IF sentence_buffer # <<>> THEN Append(pieces, sentence_buffer) ELSE pieces
  ELSE LET sentence == strip(sentences[i]) IN
       IF sentence = <<>>
       THEN SentenceLoop(sentences, i + 1, pieces, sentence_buffer, chunk_chars)
       ELSE IF Len(sentence) > chunk_chars
       THEN SentenceLoop(sentences, i + 1,
              (IF sentence_buffer # <<>> THEN Append(pieces, sentence_buffer) ELSE pieces)
                \o HardSplit(sentence, chunk_chars),
              <<>>, chunk_chars)
       ELSE LET candidate == JoinStrip(sentence_buffer, sentence) IN
            IF Len(candidate) <= chunk_chars
            THEN SentenceLoop(sentences, i + 1, pieces, candidate, chunk_chars)
            ELSE SentenceLoop(sentences, i + 1,
                   IF sentence_buffer # <<>> THEN Append(pieces, sentence_buffer) ELSE pieces,
                   sentence, chunk_chars)

split_oversized_paragraph(paragraph, chunk_chars) ==
  IF Len(paragraph) <= chunk_chars THEN <<paragraph>>
  ELSE LET pieces == SentenceLoop(SplitSentences(paragraph, 1, <<>>), 1, <<>>, <<>>, chunk_chars)
       IN IF pieces # <<>> THEN pieces ELSE <<paragraph>>

\* paragraphs = [p.strip() for p in re.split(r"\n+", text) if p.strip()]
RECURSIVE StripNonEmpty(_)
StripNonEmpty(ps) ==
  IF ps = <<>> THEN <<>>
  ELSE (IF strip(Head(ps)) # <<>> THEN <<strip(Head(ps))>> ELSE <<>>)
       \o StripNonEmpty(Tail(ps))

\* The lines of the text as they are, blank ones included.
ParagraphsUnstripped(text) == SplitLines(text, 1, <<>>)

Paragraphs(text) == StripNonEmpty(SplitLines(text, 1, <<>>))

RECURSIVE AllPieces(_, _)
AllPieces(paragraphs, chunk_chars) ==
  IF paragraphs = <<>> THEN <<>>
  ELSE split_oversized_paragraph(Head(paragraphs), chunk_chars)
       \o AllPieces(Tail(paragraphs), chunk_chars)

\* The buffer loop of one chapter over its pieces: the chunk texts emitted.
RECURSIVE BufferLoop(_, _, _, _)
BufferLoop(pieces, i, buffer, chunk_chars) ==
  IF i > Len(pieces)
  THEN IF buffer # <<>> THEN <<buffer>> ELSE <<>>
  ELSE IF Len(buffer) + Len(pieces[i]) + 1 <= chunk_chars
       THEN BufferLoop(pieces, i + 1, JoinStrip(buffer, pieces[i]), chunk_chars)
       ELSE (IF buffer # <<>> THEN <<buffer>> ELSE <<>>)
            \o BufferLoop(pieces, i + 1, pieces[i], chunk_chars)

\* A chunk that carries the title of no chapter.
TextChunkUntitled(title, text) == [chapter_title |-> "", text |-> text]

TextChunk(title, text) == [chapter_title |-> title, text |-> text]

RECURSIVE TitleChunks(_, _)
TitleChunks(title, texts) ==
  IF texts = <<>> THEN <<>>
  ELSE <<TextChunk(title, Head(texts))>> \o TitleChunks(title, Tail(texts))

\* The chapter loop from chapter i on; acc is [chunks, chapter_start_indices].
RECURSIVE ChapterLoop(_, _, _, _)
ChapterLoop(chapters, i, acc, chunk_chars) ==
  IF i > Len(chapters) THEN acc
  ELSE LET title == chapters[i][1]
           paragraphs == Paragraphs(chapters[i][2])
       IN IF paragraphs = <<>>
          THEN ChapterLoop(chapters, i + 1, acc, chunk_chars)
          ELSE ChapterLoop(chapters, i + 1,
                 [chunks |-> acc.chunks
                               \o TitleChunks(title,
                                    BufferLoop(AllPieces(paragraphs, chunk_chars), 1, <<>>, chunk_chars)),
                  chapter_start_indices |->
                    Append(acc.chapter_start_indices, <<Len(acc.chunks), title>>)],
                 chunk_chars)

split_text_to_chunks(chapters, chunk_chars) ==
  ChapterLoop(chapters, 1, [chunks |-> <<>>, chapter_start_indices |-> <<>>], chunk_chars)


(***************************************************************************)
(* audio_to_int16 (app.py 385-404).  A float buffer is clipped to [-1, 1], *)
(* scaled by 32767.0 and truncated towards zero by astype(int16); an int16 *)
(* buffer is returned unchanged.  Float samples are held doubled.          *)
(***************************************************************************)
TruncDiv2(x) == IF x >= 0 THEN x \div 2 ELSE -((-x) \div 2)

RECURSIVE ConvertSamples(_)
ConvertSamples(data) ==
  IF data = <<>> THEN <<>>
  ELSE <<TruncDiv2(Max(-2, Min(2, Head(data))) * 32767)>> \o ConvertSamples(Tail(data))

audio_to_int16(audio) ==
  IF audio.dtype # "int16"
  THEN [dtype |-> "int16", data |-> ConvertSamples(audio.data)]
  ELSE audio

\* np.concatenate(checkpoint_parts), or np.array([], dtype=np.int16) (app.py 1315-1318)
RECURSIVE ConcatData(_)
ConcatData(parts) ==
  IF parts = <<>> THEN <<>> ELSE Head(parts).data \o ConcatData(Tail(parts))

concatenate(parts) == [dtype |-> "int16", data |-> ConcatData(parts)]

\* The buffers a backend.generate call may yield (backends/base.py 36-54).
AudioBuffers == { [dtype |-> "float32", data |-> <<3, -1>>] }

(***************************************************************************)
(* Checkpoint store (checkpoint.py).                                       *)
(***************************************************************************)
NoFile == [kind |-> "NoFile"]          \* the path does not exist
Truncated == [kind |-> "Truncated"]    \* the file exists, its content is cut short

\* A verification that leaves the last option out.
key_options_short ==
  <<"voice", "speed", "lang_code", "backend", "chunk_chars",
    "split_pattern", "format", "bitrate">>

\* key_options of verify_checkpoint (checkpoint.py 124-134).
key_options ==
  <<"voice", "speed", "lang_code", "backend", "chunk_chars",
    "split_pattern", "format", "bitrate", "normalize">>

\* The keys of config_for_verify, the configuration main() passes to
\* verify_checkpoint and stores in the manifest (app.py 1106-1116, 1171-1181).
KeySet == {"voice", "speed", "lang_code", "backend", "chunk_chars",
           "split_pattern", "format", "bitrate", "normalize"}

\* The two values of each option used as inputs.
OptionValues(key) ==
  CASE key = "voice" -> <<"af_heart", "am_adam">>
    [] key = "speed" -> <<10, 15>>
    [] key = "lang_code" -> <<"a", "b">>
    [] key = "backend" -> <<"pytorch", "mlx">>
    [] key = "chunk_chars" -> <<6, 3>>
    [] key = "split_pattern" -> <<"newline", "sentence">>
    [] key = "format" -> <<"mp3", "m4b">>
    [] key = "bitrate" -> <<"192k", "128k">>
    [] key = "normalize" -> <<FALSE, TRUE>>

BaseConfig == [k \in KeySet |-> OptionValues(k)[1]]

OtherValue(key, v) ==
  IF v = OptionValues(key)[1] THEN OptionValues(key)[2] ELSE OptionValues(key)[1]

\* dict.get(key): the value, or nothing when the key is absent.
Get(config, key) == IF key \in DOMAIN config THEN <<config[key]>> ELSE <<>>

\* sorted(completed_chunks)
RECURSIVE sorted(_)
sorted(S) ==
  IF S = {} THEN <<>>
  ELSE LET m == CHOOSE x \in S : \A y \in S : x <= y
       IN <<m>> \o sorted(S \ {m})

\* set(state.completed_chunks)
SetOf(seq) == {seq[i] : i \in 1..Len(seq)}

\* An EPUB file: its bytes, and the chapters extract_epub_text returns for it.
Books ==
  << [bytes |-> <<1, 0>>,
      chapters |-> << <<"Ch1", <<"a", "a">> >>,
                      <<"Blank", <<" ", "\n", " ">> >>,
                      <<"", <<"b", ".", " ", "b">> >> >>],
     [bytes |-> <<0, 1>>,
      chapters |-> << <<"Solo", <<"a", "b">> >> >>],
     [bytes |-> <<1, 1>>,
      chapters |-> << <<"Empty", <<" ", "\n">> >> >>] >>

Inputs == 1..Len(Books)

\* compute_epub_hash (checkpoint.py 36-43): a digest of the file's bytes.
RECURSIVE Digest(_, _)
Digest(bytes, h) ==
  IF bytes = <<>> THEN h ELSE Digest(Tail(bytes), (h * 31 + Head(bytes) + 1) % 65521)

compute_epub_hash(epub) == Digest(Books[epub].bytes, 7)

extract_epub_text(epub) == Books[epub].chapters

\* state.json holds bytes that are not text in the encoding open() uses.
Undecodable == [kind |-> "Undecodable"]

\* The fields CheckpointState.from_dict reads (checkpoint.py 26-33).
RequiredFields ==
  {"epub_hash", "config", "total_chunks", "completed_chunks", "chapter_start_indices"}

\* open, json.load and from_dict on the content of state.json
\* (checkpoint.py 65-67): the manifest, or the exception raised.
ReadManifest(file) ==
  IF file = Undecodable THEN [raised |-> "UnicodeDecodeError", value |-> None]
  ELSE IF file = Truncated THEN [raised |-> "JSONDecodeError", value |-> None]
  ELSE IF \E f \in RequiredFields : f \notin DOMAIN file
       THEN [raised |-> "KeyError", value |-> None]
  ELSE [raised |-> "", value |-> file]

\* The exceptions load_checkpoint catches (checkpoint.py 68).
CaughtByLoad == {"JSONDecodeError", "KeyError", "TypeError"}

\* A call of load_checkpoint (checkpoint.py 59-69): what it returns and the
\* exception that leaves it, "" when none does.
LoadCheckpointCall(file) ==
  IF file = NoFile THEN [raised |-> "", value |-> None]
  ELSE LET r == ReadManifest(file) IN
         IF r.raised \in CaughtByLoad THEN [raised |-> "", value |-> None] ELSE r

\* load_checkpoint (checkpoint.py 59-69) on the content of state.json.
load_checkpoint(file) == LoadCheckpointCall(file).value

\* load_chunk_audio (checkpoint.py 79-87) on the content of chunk_NNNNNN.npy.
load_chunk_audio(file) == IF file \in {NoFile, Truncated} THEN None ELSE file

\* The loop over key_options of verify_checkpoint, from key i on.
RECURSIVE KeysMatch(_, _, _)
KeysMatch(stored, config, i) ==
  IF i > Len(key_options) THEN TRUE
  ELSE IF Get(stored, key_options[i]) # Get(config, key_options[i]) THEN FALSE
  ELSE KeysMatch(stored, config, i + 1)

\* A verification that compares the fingerprint of the input only.
verify_checkpoint_hash_only(file, epub, config) ==
  LET state == load_checkpoint(file) IN
  IF state = None THEN FALSE
  ELSE state.epub_hash = compute_epub_hash(epub)

verify_checkpoint(file, epub, config) ==
  LET state == load_checkpoint(file) IN
  IF state = None THEN FALSE
  ELSE IF state.epub_hash # compute_epub_hash(epub) THEN FALSE
  ELSE KeysMatch(state.config, config, 1)

CheckpointState(epub_hash, config, total_chunks, completed, starts) ==
  [epub_hash |-> epub_hash, config |-> config, total_chunks |-> total_chunks,
   completed_chunks |-> completed, chapter_start_indices |-> starts]


(***************************************************************************)
(* State.  The checkpoint directory outlives a run of main(); everything   *)
(* else belongs to the current run and is set anew by StartRun.            *)
(***************************************************************************)
ChunkIds == 0..2       \* chunk indices of the modelled inputs

VARIABLES
  state_json,            \* <output>.checkpoint/state.json
  chunk_npy,             \* <output>.checkpoint/chunk_NNNNNN.npy, per index
  external,              \* changes made to the directory by something else
  cleanup_begun,         \* a removal of the directory has started and not finished
  run,                   \* number of runs of main() started
  args,                  \* parsed command line of the current run
  pc,                    \* position of the main thread
  ret,                   \* where save_checkpoint returns to
  outcome,               \* how the last run ended
  exc,                   \* the exception being propagated, "" when none
  chapters,              \* the chapters extract_epub_text returned
  chunks, chapter_start_indices,
  completed_chunks, checkpoint_state,
  chunk_sample_offsets, cumulative_samples,
  idx, processed_count, checkpoint_parts,
  sink,                  \* the writes to the spool file or the encoder's stdin
  chapter_infos,
  events,
  exported,              \* the export of the artifact has returned
  yielded,               \* buffers the running backend.generate call has yielded
  generate_calls,        \* backend.generate calls of this run, per index
  saving,                \* state.json before, and the manifest given to, the last save
  found,                 \* the checkpoint directory as the current run found it,
                         \* and whether the run before failed in the export
  verified,              \* the result of the last verify_checkpoint call, if any
  produced,              \* per index, the audio this run obtained for the chunk
  cum_at_done,           \* cumulative_samples at each progress event of this run
  inference_queue, pcm_queue, worker_errors,
  infer_thread,          \* inference_worker: position, chunk index, held buffer
  convert_thread,        \* convert_worker: position, held message
  chunk_started,
  sent,                  \* the messages inference_worker has put, in order
  raised,                \* the worker threads in which an exception was raised
  since_heartbeat,       \* time.time() - last_heartbeat, in ticks
  ticked,                \* a tick has passed in the controller's current iteration
  backend,               \* the TTS backend: "none", "created", "ready" or "cleaned"
  mp3_export_proc,       \* the streaming encoder: "none", "running" or "exited"
  spool_path,            \* the spool file: "none", "exists" or "removed"
  observed               \* the messages the controller has taken, in order

disk == <<state_json, chunk_npy>>
mem == <<args, chapters, chunks, chapter_start_indices, completed_chunks, checkpoint_state,
         chunk_sample_offsets, cumulative_samples, idx, processed_count,
         checkpoint_parts, sink, chapter_infos, events, exported, yielded,
         generate_calls, found, verified, produced, cum_at_done>>
pipeline == <<inference_queue, pcm_queue, worker_errors, infer_thread, convert_thread,
              chunk_started, sent, raised, observed, since_heartbeat, ticked>>
resources == <<backend, mp3_export_proc, spool_path>>
ov == <<pipeline, resources>>
vars == <<state_json, chunk_npy, external, cleanup_begun, run, args, pc, ret, outcome, exc, chapters, chunks,
          chapter_start_indices, completed_chunks, checkpoint_state,
          chunk_sample_offsets, cumulative_samples, idx, processed_count,
          checkpoint_parts, sink, chapter_infos, events, exported, yielded,
          generate_calls, saving, found, verified, produced, cum_at_done, inference_queue,
          pcm_queue, worker_errors, infer_thread, convert_thread, chunk_started,
          sent, raised, observed, since_heartbeat, ticked, backend,
          mp3_export_proc, spool_path>>

total_chunks == Len(chunks)
use_checkpoint == args.checkpoint \/ args.resume
\* Streaming to the encoder for every mp3, with or without checkpoints.
use_mp3_stream_by_format == args.config["format"] = "mp3"

\* app.py 1152: mp3 is streamed to the encoder only without checkpoints.
use_mp3_stream == args.config["format"] = "mp3" /\ ~use_checkpoint

Event(type, code, i) == [type |-> type, code |-> code, idx |-> i]

SomeList(items) == [kind |-> "list", items |-> items]

PrefetchChunks == 1
PcmQueueSize == 1

NoArgs ==
  [input |-> 1, resume |-> FALSE, checkpoint |-> FALSE,
   requested_pipeline_mode |-> "sequential", pipeline_mode |-> "sequential",
   prefetch_chunks |-> PrefetchChunks, pcm_queue_size |-> PcmQueueSize,
   config |-> BaseConfig]

NothingFound == [state_json |-> NoFile, loadable |-> {}, after_failed_export |-> FALSE]

NoThread == [pc |-> "none"]

\* The threads and queues of the overlapped pipeline before it is set up,
\* and no backend.
NoPipeline ==
  /\ inference_queue' = <<>>
  /\ pcm_queue' = <<>>
  /\ worker_errors' = <<>>
  /\ infer_thread' = NoThread
  /\ convert_thread' = NoThread
  /\ chunk_started' = <<>>
  /\ sent' = <<>>
  /\ raised' = {}
  /\ observed' = <<>>
  /\ since_heartbeat' = 0
  /\ ticked' = FALSE
  /\ backend' = "none"
  /\ mp3_export_proc' = "none"
  /\ spool_path' = "none"

\* The state before any run, but for the checkpoint directory, the
\* arguments, the chapter list and the result of verify_checkpoint.
InitRest ==
  /\ external = 0
  /\ cleanup_begun = FALSE
  /\ run = 0
  /\ pc = "idle"
  /\ ret = "idle"
  /\ outcome = "none"
  /\ exc = ""
  /\ chunks = <<>>
  /\ chapter_start_indices = <<>>
  /\ completed_chunks = {}
  /\ checkpoint_state = None
  /\ chunk_sample_offsets = <<>>
  /\ cumulative_samples = 0
  /\ idx = 0
  /\ processed_count = 0
  /\ checkpoint_parts = None
  /\ sink = <<>>
  /\ chapter_infos = <<>>
  /\ events = <<>>
  /\ exported = FALSE
  /\ yielded = <<>>
  /\ generate_calls = [i \in ChunkIds |-> 0]
  /\ saving = None
  /\ found = NothingFound
  /\ produced = [i \in ChunkIds |-> None]
  /\ cum_at_done = <<>>
  /\ inference_queue = <<>>
  /\ pcm_queue = <<>>
  /\ worker_errors = <<>>
  /\ infer_thread = NoThread
  /\ convert_thread = NoThread
  /\ chunk_started = <<>>
  /\ sent = <<>>
  /\ raised = {}
  /\ observed = <<>>
  /\ since_heartbeat = 0
  /\ ticked = FALSE
  /\ backend = "none"
  /\ mp3_export_proc = "none"
  /\ spool_path = "none"

Init ==
  /\ state_json = NoFile
  /\ args = NoArgs
  /\ chapters = <<>>
  /\ verified = <<>>
  /\ chunk_npy = [i \in ChunkIds |-> NoFile]
  /\ InitRest

\* The configurations of the runs: the options in VariedKeys take both of
\* their values, the others their first.
VariedKeys == {"format"}

\* --pipeline_mode (app.py 854-862); the default on Apple Silicon is overlap3
\* for MP3 without checkpoints, otherwise sequential (app.py 58-67).
PipelineModes == {"sequential", "overlap3"}

\* The overlapped pipeline runs only while the checkpoint directory does
\* not exist (a bound on the runs explored: the overlapped pipeline never
\* reads or writes the directory).
DirectoryAbsent ==
  state_json = NoFile /\ \A i \in ChunkIds : chunk_npy[i] = NoFile

Configs ==
  {[k \in KeySet |-> IF k \in S THEN OptionValues(k)[2] ELSE OptionValues(k)[1]] :
     S \in SUBSET VariedKeys}

\* A fallback test that looks at the format only.
overlap3_fallback_by_format(requested_pipeline_mode, format, checkpointing) ==
  requested_pipeline_mode = "overlap3" /\ format # "mp3"

\* A resolution of the pipeline mode that never falls back.
overlap3_never_falls_back(requested_pipeline_mode, format, checkpointing) == FALSE

\* The requested overlap3 is replaced by sequential, with a warning, for a
\* format other than mp3 and for a run with checkpoints (app.py 1028-1034).
overlap3_fallback(requested_pipeline_mode, format, checkpointing) ==
  requested_pipeline_mode = "overlap3" /\ (format # "mp3" \/ checkpointing)

\* The process before this one was a run with checkpoints that ended with an
\* error raised by the export.
PreviousExportFailed ==
  /\ pc = "idle"
  /\ outcome = "error"
  /\ use_checkpoint
  /\ exc \in {"ffmpeg_not_found", "ffmpeg_failed"}
  /\ \E k \in 1..Len(events) : events[k] = Event("phase", "EXPORTING", -1)

\* --input: the path of a book, or 0 for a path at which no file exists.
InputPaths == {0} \cup Inputs

\* --prefetch_chunks and --pcm_queue_size as given on the command line.
PrefetchValues == {0, PrefetchChunks}
PcmQueueValues == {0, PcmQueueSize}

\* Argument checks that leave --pcm_queue_size out.
ArgumentErrorPrefetchOnly(input, prefetch_chunks, pcm_queue_size) ==
  IF input \notin Inputs THEN "input_not_found"
  ELSE IF prefetch_chunks < 1 THEN "prefetch_chunks"
  ELSE ""

\* The checks at the head of main (app.py 966-979), in their order: the
\* error raised, "" when none is.
ArgumentError(input, prefetch_chunks, pcm_queue_size) ==
  IF input \notin Inputs THEN "input_not_found"
  ELSE IF prefetch_chunks < 1 THEN "prefetch_chunks"
  ELSE IF pcm_queue_size < 1 THEN "pcm_queue_size"
  ELSE ""

\* main() from the argument checks to the resume decision (app.py 966-1127).
\* A resume that takes the stored completed set without comparing the chunk
\* count.
AdoptWithoutCount(resume, ok, state, n) == resume /\ ok /\ state # None

\* An adoption of the stored completed set that does not ask for --resume.
AdoptWithoutResume(resume, ok, state, n) == ok /\ state # None /\ state.total_chunks = n

\* The resume decision (app.py 1104, 1117-1119): the stored completed set is
\* taken when verify_checkpoint holds and the chunk counts agree.
Adopt(resume, ok, state, n) == resume /\ ok /\ state # None /\ state.total_chunks = n

StartRun ==
  /\ pc = "idle"
  /\ run < MaxRuns
  /\ \E input \in InputPaths, resume \in BOOLEAN, checkpoint \in BOOLEAN,
        config \in Configs, requested_pipeline_mode \in PipelineModes,
        prefetch_chunks \in PrefetchValues, pcm_queue_size \in PcmQueueValues :
       LET split == split_text_to_chunks(extract_epub_text(input), config["chunk_chars"])
           n == Len(split.chunks)
           ok == verify_checkpoint(state_json, input, config)
           state == load_checkpoint(state_json)
           adopt == Adopt(resume, ok, state, n)
           fallback == overlap3_fallback(requested_pipeline_mode, config["format"],
                                         checkpoint \/ resume)
       IN /\ ArgumentError(input, prefetch_chunks, pcm_queue_size) = ""
          /\ n > 0
          /\ (requested_pipeline_mode = "overlap3" /\ ~fallback) => DirectoryAbsent
          /\ args' = [input |-> input, resume |-> resume, checkpoint |-> checkpoint,
                      requested_pipeline_mode |-> requested_pipeline_mode,
                      pipeline_mode |-> IF fallback THEN "sequential"
                                        ELSE requested_pipeline_mode,
                      prefetch_chunks |-> prefetch_chunks,
                      pcm_queue_size |-> pcm_queue_size,
                      config |-> config]
          /\ chapters' = (IF ArgumentError(input, prefetch_chunks, pcm_queue_size) = ""
                          THEN extract_epub_text(input) ELSE <<>>)
          /\ chunks' = split.chunks
          /\ chapter_start_indices' = split.chapter_start_indices
          /\ completed_chunks' = IF adopt THEN SetOf(state.completed_chunks) ELSE {}
          /\ checkpoint_state' = IF adopt THEN state ELSE None
          /\ events' =
               (IF fallback THEN <<Event("warning", "overlap3_fallback", -1)>> ELSE <<>>)
               \o <<Event("phase", "PARSING", -1)>>
               \o (IF ~resume THEN <<>>
                   ELSE IF adopt
                        THEN <<Event("checkpoint", "RESUMING", Len(state.completed_chunks))>>
                   ELSE IF ok
                        THEN <<Event("checkpoint", "INVALID:chunk_mismatch", -1)>>
                   ELSE <<Event("checkpoint", "INVALID:config_mismatch", -1)>>)
          /\ chunk_sample_offsets' = [i \in 1..n |-> 0]
  /\ run' = run + 1
  /\ pc' = "init"
  /\ ret' = "idle"
  /\ outcome' = "running"
  /\ exc' = ""
  /\ cumulative_samples' = 0
  /\ idx' = 0
  /\ processed_count' = 0
  /\ checkpoint_parts' = None
  /\ sink' = <<>>
  /\ chapter_infos' = <<>>
  /\ exported' = FALSE
  /\ yielded' = <<>>
  /\ generate_calls' = [i \in ChunkIds |-> 0]
  /\ saving' = None
  /\ found' = (IF args'.resume
                THEN [state_json |-> state_json,
                      loadable |-> {i \in ChunkIds : load_chunk_audio(chunk_npy[i]) # None},
                      after_failed_export |->
                        PreviousExportFailed /\ args'.input = args.input
                        /\ args'.config = args.config]
                ELSE NothingFound)
  /\ verified' = (IF args'.resume
                   THEN <<verify_checkpoint(state_json, args'.input, args'.config)>>
                   ELSE <<>>)
  /\ produced' = [i \in ChunkIds |-> None]
  /\ cum_at_done' = <<>>
  /\ NoPipeline
  /\ UNCHANGED <<disk, external, cleanup_begun>>

\* The runs with rejected arguments that are explored (a bound: the options
\* read after the checks take one value each, --resume and --checkpoint are
\* given together or not at all, a missing input comes with valid sizes).
RejectedRunExplored(input, resume, checkpoint, config, prefetch_chunks, pcm_queue_size) ==
  /\ input \in {0, 1}
  /\ config = BaseConfig
  /\ resume = checkpoint
  /\ input = 0 => prefetch_chunks >= 1 /\ pcm_queue_size >= 1

\* main() ends before the backend is created: an argument check fails
\* (app.py 966-979; the pipeline mode is not resolved then), or the book
\* yields no chunk (app.py 1095-1096).  The exception reaches the handler of
\* main without passing the inner finally.
StartRunFails ==
  /\ pc = "idle"
  /\ run < MaxRuns
  /\ \E input \in InputPaths, resume \in BOOLEAN, checkpoint \in BOOLEAN,
        config \in Configs, requested_pipeline_mode \in PipelineModes,
        prefetch_chunks \in PrefetchValues, pcm_queue_size \in PcmQueueValues :
       LET error == ArgumentError(input, prefetch_chunks, pcm_queue_size)
           split == IF error = ""
                    THEN split_text_to_chunks(extract_epub_text(input),
                                              config["chunk_chars"])
                    ELSE [chunks |-> <<>>, chapter_start_indices |-> <<>>]
           fallback == overlap3_fallback(requested_pipeline_mode, config["format"],
                                         checkpoint \/ resume)
       IN /\ error # "" \/ split.chunks = <<>>
          /\ error # "" => RejectedRunExplored(input, resume, checkpoint, config,
                                               prefetch_chunks, pcm_queue_size)
          /\ args' = [input |-> input, resume |-> resume, checkpoint |-> checkpoint,
                      requested_pipeline_mode |-> requested_pipeline_mode,
                      pipeline_mode |-> IF error # "" THEN ""
                                        ELSE IF fallback THEN "sequential"
                                        ELSE requested_pipeline_mode,
                      prefetch_chunks |-> prefetch_chunks,
                      pcm_queue_size |-> pcm_queue_size,
                      config |-> config]
          /\ chapters' = (IF ArgumentError(input, prefetch_chunks, pcm_queue_size) = ""
                          THEN extract_epub_text(input) ELSE <<>>)
          /\ chunks' = split.chunks
          /\ chapter_start_indices' = split.chapter_start_indices
          /\ events' =
               IF error # "" THEN <<>>
               ELSE (IF fallback THEN <<Event("warning", "overlap3_fallback", -1)>>
                     ELSE <<>>)
                    \o <<Event("phase", "PARSING", -1)>>
          /\ exc' = IF error # "" THEN error ELSE "no_chunks"
  /\ run' = run + 1
  /\ pc' = "exit"
  /\ ret' = "idle"
  /\ outcome' = "running"
  /\ completed_chunks' = {}
  /\ checkpoint_state' = None
  /\ chunk_sample_offsets' = <<>>
  /\ cumulative_samples' = 0
  /\ idx' = 0
  /\ processed_count' = 0
  /\ checkpoint_parts' = None
  /\ sink' = <<>>
  /\ chapter_infos' = <<>>
  /\ exported' = FALSE
  /\ yielded' = <<>>
  /\ generate_calls' = [i \in ChunkIds |-> 0]
  /\ saving' = None
  /\ found' = NothingFound
  /\ verified' = <<>>
  /\ produced' = [i \in ChunkIds |-> None]
  /\ cum_at_done' = <<>>
  /\ NoPipeline
  /\ UNCHANGED <<disk, external, cleanup_begun>>

\* Raising exception e: control passes to the finally clause of main().
Raise(e) == pc' = "finally" /\ exc' = e

\* create_backend, backend.initialize and the opening of the sink
\* (app.py 1135-1166): the encoder process for mp3 without checkpoints, a
\* spool file otherwise.
InitBackend ==
  /\ pc = "init"
  /\ pc' = IF use_checkpoint THEN "ckpt_init" ELSE "inference"
  /\ backend' = "ready"
  /\ mp3_export_proc' = IF use_mp3_stream THEN "running" ELSE "none"
  /\ spool_path' = IF use_mp3_stream THEN "none" ELSE "exists"
  /\ UNCHANGED <<pipeline, disk, external, cleanup_begun, run, ret, outcome, exc, mem, saving>>

\* create_backend raises (no backend object), backend.initialize raises (the
\* object exists), or ffmpeg is not found when the encoder is to be started.
InitBackendFails ==
  /\ pc = "init"
  /\ \E e \in {"backend_init"} \cup (IF use_mp3_stream THEN {"ffmpeg_not_found"} ELSE {}) :
       /\ Raise(e)
       /\ backend' \in (IF e = "backend_init" THEN {"none", "created"} ELSE {"ready"})
  /\ UNCHANGED <<mp3_export_proc, spool_path>>
  /\ UNCHANGED <<pipeline, disk, external, cleanup_begun, run, ret, outcome, mem, saving>>

\* The initial checkpoint state (app.py 1169-1192), up to the call of
\* save_checkpoint.
CheckpointInit ==
  /\ pc = "ckpt_init"
  /\ checkpoint_state' =
       IF checkpoint_state = None
       THEN CheckpointState(compute_epub_hash(args.input), args.config, total_chunks,
                            sorted(completed_chunks), chapter_start_indices)
       ELSE [checkpoint_state EXCEPT !.completed_chunks = sorted(completed_chunks)]
  /\ pc' = "save_open"
  /\ ret' = "inference"
  /\ UNCHANGED <<ov, disk, external, cleanup_begun, run, outcome, exc, args, chapters, chunks, chapter_start_indices,
                 completed_chunks, chunk_sample_offsets, cumulative_samples, idx,
                 processed_count, checkpoint_parts, sink, chapter_infos, events,
                 exported, yielded, generate_calls, saving, found, verified, produced, cum_at_done>>

\* save_checkpoint (checkpoint.py 51-56): open(state_path, 'w') creates the
\* file or cuts it to length zero ...
SaveOpen ==
  /\ pc = "save_open"
  /\ saving' = [old |-> state_json, new |-> checkpoint_state, active |-> TRUE]
  /\ state_json' = Truncated
  /\ pc' = "save_dump"
  /\ UNCHANGED <<ov, chunk_npy, external, cleanup_begun, run, ret, outcome, exc, mem>>

\* The persisted form of a manifest: asdict, json.dump, json.load and
\* from_dict (checkpoint.py 22-33) keep every field; tuples come back as tuples.
to_dict(state) == state

\* ... and json.dump with the closing of the file writes the manifest.
SaveDump ==
  /\ pc = "save_dump"
  /\ state_json' = to_dict(checkpoint_state)
  /\ saving' = None
  /\ pc' = ret
  /\ UNCHANGED <<ov, chunk_npy, external, cleanup_begun, run, ret, outcome, exc, mem>>

\* events.emit("phase", phase="INFERENCE") and the choice of the loop
\* (app.py 1215-1216, 1473-1483).
BeginInference ==
  /\ pc = "inference"
  /\ events' = Append(events, Event("phase", "INFERENCE", -1))
  /\ pc' = IF args.pipeline_mode = "overlap3" THEN "ov_setup" ELSE "seq_top"
  /\ UNCHANGED <<ov, disk, external, cleanup_begun, run, ret, outcome, exc, args, chapters, chunks,
                 chapter_start_indices, completed_chunks, checkpoint_state,
                 chunk_sample_offsets, cumulative_samples, idx, processed_count,
                 checkpoint_parts, sink, chapter_infos, exported, yielded,
                 generate_calls, saving, found, verified, produced, cum_at_done>>

(***************************************************************************)
(* run_inference_sequential (app.py 1226-1343).                            *)
(***************************************************************************)
\* A write to the sink; at is cumulative_samples when it is made.
Write(i, src, audio) ==
  [idx |-> i, src |-> src, data |-> audio.data, at |-> cumulative_samples]

\* A progress event that counts the finished chunks from zero.
ProgressEventFromZero(count) == Event("progress", "", count - 1)

ProgressEvent(count) == Event("progress", "", count)

\* The end of the for loop: every chunk has been handled.
SeqLoopExit ==
  /\ pc = "seq_top"
  /\ idx = total_chunks
  /\ pc' = "concat"
  /\ UNCHANGED <<ov, disk, external, cleanup_begun, run, ret, outcome, exc, mem, saving>>

\* A loop that infers a chunk although its blob loads.
SeqReuseInfers ==
  /\ pc = "seq_top"
  /\ idx < total_chunks
  /\ use_checkpoint /\ args.resume /\ idx \in completed_chunks
  /\ load_chunk_audio(chunk_npy[idx]) # None
  /\ chunk_sample_offsets' = [chunk_sample_offsets EXCEPT ![idx + 1] = cumulative_samples]
  /\ events' = Append(events, Event("worker", "INFER", idx))
  /\ checkpoint_parts' = SomeList(<<>>)
  /\ generate_calls' = [generate_calls EXCEPT ![idx] = @ + 1]
  /\ yielded' = <<>>
  /\ pc' = "seq_gen"
  /\ UNCHANGED <<ov, disk, external, cleanup_begun, run, ret, outcome, exc, args, chapters, chunks,
                 chapter_start_indices, completed_chunks, checkpoint_state,
                 cumulative_samples, idx, processed_count, sink, chapter_infos,
                 exported, saving, found, verified, produced, cum_at_done>>

\* A chunk marked completed whose blob loads: the blob goes to the sink
\* (app.py 1237-1267, 1333-1343).
SeqReuse ==
  /\ pc = "seq_top"
  /\ idx < total_chunks
  /\ use_checkpoint /\ args.resume /\ idx \in completed_chunks
  /\ load_chunk_audio(chunk_npy[idx]) # None
  /\ LET chunk_audio == audio_to_int16(load_chunk_audio(chunk_npy[idx])) IN
       /\ chunk_sample_offsets' = [chunk_sample_offsets EXCEPT ![idx + 1] = cumulative_samples]
       /\ sink' = Append(sink, Write(idx, "blob", chunk_audio))
       /\ cumulative_samples' = cumulative_samples + Len(chunk_audio.data)
       /\ produced' = [produced EXCEPT ![idx] = [src |-> "blob", data |-> chunk_npy[idx].data]]
  /\ events' = events \o <<Event("worker", "ENCODE", idx), Event("checkpoint", "REUSED", idx),
                           ProgressEvent(processed_count + 1)>>
  /\ processed_count' = processed_count + 1
  /\ cum_at_done' = Append(cum_at_done, <<idx, cumulative_samples'>>)
  /\ idx' = idx + 1
  /\ UNCHANGED <<ov, disk, external, cleanup_begun, run, pc, ret, outcome, exc, args, chapters, chunks,
                 chapter_start_indices, completed_chunks, checkpoint_state,
                 checkpoint_parts, chapter_infos, exported, yielded, generate_calls,
                 saving, found, verified>>

\* An un-marking that is kept in memory only: save_checkpoint is not called.
SeqMissingNoSave ==
  /\ pc = "seq_top"
  /\ idx < total_chunks
  /\ use_checkpoint /\ args.resume /\ idx \in completed_chunks
  /\ load_chunk_audio(chunk_npy[idx]) = None
  /\ chunk_sample_offsets' = [chunk_sample_offsets EXCEPT ![idx + 1] = cumulative_samples]
  /\ completed_chunks' = completed_chunks \ {idx}
  /\ checkpoint_state' =
       IF checkpoint_state # None
       THEN [checkpoint_state EXCEPT !.completed_chunks = sorted(completed_chunks')]
       ELSE checkpoint_state
  /\ pc' = "seq_missing"
  /\ UNCHANGED <<ov, disk, external, cleanup_begun, run, ret, outcome, exc, args, chapters, chunks,
                 chapter_start_indices, cumulative_samples, idx, processed_count,
                 checkpoint_parts, sink, chapter_infos, events, exported, yielded,
                 generate_calls, saving, found, verified, produced, cum_at_done>>

\* A chunk marked completed whose blob does not load: it is un-marked and
\* the manifest saved (app.py 1237-1241, 1268-1272).
SeqMissing ==
  /\ pc = "seq_top"
  /\ idx < total_chunks
  /\ use_checkpoint /\ args.resume /\ idx \in completed_chunks
  /\ load_chunk_audio(chunk_npy[idx]) = None
  /\ chunk_sample_offsets' = [chunk_sample_offsets EXCEPT ![idx + 1] = cumulative_samples]
  /\ completed_chunks' = completed_chunks \ {idx}
  /\ IF checkpoint_state # None
     THEN /\ checkpoint_state' =
               [checkpoint_state EXCEPT !.completed_chunks = sorted(completed_chunks')]
          /\ pc' = "save_open"
          /\ ret' = "seq_missing"
     ELSE /\ pc' = "seq_missing"
          /\ UNCHANGED <<checkpoint_state, ret>>
  /\ UNCHANGED <<ov, disk, external, cleanup_begun, run, outcome, exc, args, chapters, chunks, chapter_start_indices,
                 cumulative_samples, idx, processed_count, checkpoint_parts, sink,
                 chapter_infos, events, exported, yielded, generate_calls,
                 saving, found, verified, produced, cum_at_done>>

\* The start of live inference: the INFER event, the accumulator and the
\* call of backend.generate (app.py 1279-1296).
StartInfer ==
  /\ events' = Append(events, Event("worker", "INFER", idx))
  /\ checkpoint_parts' = IF use_checkpoint THEN SomeList(<<>>) ELSE None
  /\ generate_calls' = [generate_calls EXCEPT ![idx] = @ + 1]
  /\ yielded' = <<>>
  /\ pc' = "seq_gen"

\* After the un-marking: the MISSING_AUDIO event, then live inference
\* (app.py 1273-1296).
SeqMissingInfer ==
  /\ pc = "seq_missing"
  /\ events' = events \o <<Event("checkpoint", "MISSING_AUDIO", idx),
                           Event("worker", "INFER", idx)>>
  /\ checkpoint_parts' = IF use_checkpoint THEN SomeList(<<>>) ELSE None
  /\ generate_calls' = [generate_calls EXCEPT ![idx] = @ + 1]
  /\ yielded' = <<>>
  /\ pc' = "seq_gen"
  /\ UNCHANGED <<ov, disk, external, cleanup_begun, run, ret, outcome, exc, args, chapters, chunks,
                 chapter_start_indices, completed_chunks, checkpoint_state,
                 chunk_sample_offsets, cumulative_samples, idx, processed_count, sink,
                 chapter_infos, exported, saving, found, verified, produced, cum_at_done>>

\* A loop that passes over a chunk that is not reused without inferring it.
SeqFreshSkip ==
  /\ pc = "seq_top"
  /\ idx < total_chunks
  /\ ~(use_checkpoint /\ args.resume /\ idx \in completed_chunks)
  /\ idx' = idx + 1
  /\ processed_count' = processed_count + 1
  /\ UNCHANGED <<ov, disk, external, cleanup_begun, run, pc, ret, outcome, exc, args,
                 chapters, chunks, chapter_start_indices, completed_chunks, checkpoint_state,
                 chunk_sample_offsets, cumulative_samples, checkpoint_parts, sink,
                 chapter_infos, events, exported, yielded, generate_calls, saving, found,
                 verified, produced, cum_at_done>>

\* A chunk that is not reused (app.py 1237-1240, 1279-1296).
SeqFresh ==
  /\ pc = "seq_top"
  /\ idx < total_chunks
  /\ ~(use_checkpoint /\ args.resume /\ idx \in completed_chunks)
  /\ chunk_sample_offsets' = [chunk_sample_offsets EXCEPT ![idx + 1] = cumulative_samples]
  /\ StartInfer
  /\ UNCHANGED <<ov, disk, external, cleanup_begun, run, ret, outcome, exc, args, chapters, chunks,
                 chapter_start_indices, completed_chunks, checkpoint_state,
                 cumulative_samples, idx, processed_count, sink, chapter_infos,
                 exported, saving, found, verified, produced, cum_at_done>>

\* The content of a chunk file: the array saved, and with it (for the
\* properties only) the whole audio of the generate call it was saved after
\* and the input fingerprint and options of the run that saved it.
Blob(audio, full) ==
  [dtype |-> audio.dtype, data |-> audio.data, full |-> full.data,
   by |-> [epub_hash |-> compute_epub_hash(args.input), config |-> args.config]]

RECURSIVE ConvertAll(_)
ConvertAll(buffers) ==
  IF buffers = <<>> THEN <<>>
  ELSE <<audio_to_int16(Head(buffers))>> \o ConvertAll(Tail(buffers))

\* A loop body that writes the buffer to the sink and does not keep it for
\* the blob.
SeqYieldUnkept ==
  /\ pc = "seq_gen"
  /\ Len(yielded) < MaxBuffers
  /\ \E audio \in AudioBuffers :
       LET int16_audio == audio_to_int16(audio) IN
         /\ yielded' = Append(yielded, audio)
         /\ sink' = Append(sink, Write(idx, "live", int16_audio))
         /\ cumulative_samples' = cumulative_samples + Len(int16_audio.data)
  /\ UNCHANGED <<ov, disk, external, cleanup_begun, run, pc, ret, outcome, exc, args, chapters, chunks,
                 chapter_start_indices, completed_chunks, checkpoint_state,
                 chunk_sample_offsets, idx, processed_count, chapter_infos, events,
                 exported, generate_calls, saving, found, verified, produced, cum_at_done,
                 checkpoint_parts>>

\* backend.generate yields a buffer: it is converted, written to the sink
\* and kept for the blob (app.py 1291-1309).
SeqYield ==
  /\ pc = "seq_gen"
  /\ Len(yielded) < MaxBuffers
  /\ \E audio \in AudioBuffers :
       LET int16_audio == audio_to_int16(audio) IN
         /\ yielded' = Append(yielded, audio)
         /\ sink' = Append(sink, Write(idx, "live", int16_audio))
         /\ cumulative_samples' = cumulative_samples + Len(int16_audio.data)
         /\ checkpoint_parts' =
              IF checkpoint_parts # None
              THEN SomeList(Append(checkpoint_parts.items, int16_audio))
              ELSE checkpoint_parts
  /\ UNCHANGED <<ov, disk, external, cleanup_begun, run, pc, ret, outcome, exc, args, chapters, chunks,
                 chapter_start_indices, completed_chunks, checkpoint_state,
                 chunk_sample_offsets, idx, processed_count, chapter_infos, events,
                 exported, generate_calls, saving, found, verified, produced, cum_at_done>>

\* backend.generate raises.
SeqGenerateRaises ==
  /\ pc = "seq_gen"
  /\ Raise("backend")
  /\ UNCHANGED <<ov, disk, external, cleanup_begun, run, ret, outcome, mem, saving>>

\* The end of backend.generate without the save of the chunk file and the
\* manifest.
SeqGenerateEndsUnsaved ==
  /\ pc = "seq_gen"
  /\ produced' = [produced EXCEPT ![idx] =
                    [src |-> "live", data |-> concatenate(ConvertAll(yielded)).data]]
  /\ pc' = "seq_end"
  /\ UNCHANGED <<ov, disk, external, cleanup_begun, run, ret, outcome, exc, args, chapters, chunks,
                 chapter_start_indices, completed_chunks, checkpoint_state,
                 chunk_sample_offsets, cumulative_samples, idx, processed_count,
                 checkpoint_parts, sink, chapter_infos, events, exported, yielded,
                 generate_calls, saving, found, verified, cum_at_done>>

\* backend.generate is exhausted (app.py 1311-1314).
SeqGenerateEnds ==
  /\ pc = "seq_gen"
  /\ produced' = [produced EXCEPT ![idx] =
                    [src |-> "live", data |-> concatenate(ConvertAll(yielded)).data]]
  /\ pc' = IF checkpoint_parts # None THEN "blob_open" ELSE "seq_end"
  /\ UNCHANGED <<ov, disk, external, cleanup_begun, run, ret, outcome, exc, args, chapters, chunks,
                 chapter_start_indices, completed_chunks, checkpoint_state,
                 chunk_sample_offsets, cumulative_samples, idx, processed_count,
                 checkpoint_parts, sink, chapter_infos, events, exported, yielded,
                 generate_calls, saving, found, verified, cum_at_done>>

\* A save that marks the chunk completed and persists the manifest while the
\* chunk file is still empty.
BlobOpenMarksFirst ==
  /\ pc = "blob_open"
  /\ chunk_npy' = [chunk_npy EXCEPT ![idx] = Truncated]
  /\ completed_chunks' = completed_chunks \cup {idx}
  /\ IF checkpoint_state # None
     THEN /\ checkpoint_state' =
               [checkpoint_state EXCEPT !.completed_chunks = sorted(completed_chunks')]
          /\ pc' = "save_open"
          /\ ret' = "blob_write"
     ELSE /\ pc' = "blob_write"
          /\ UNCHANGED <<checkpoint_state, ret>>
  /\ UNCHANGED <<ov, state_json, external, cleanup_begun, run, outcome, exc, args, chapters, chunks,
                 chapter_start_indices, chunk_sample_offsets, cumulative_samples, idx,
                 processed_count, checkpoint_parts, sink, chapter_infos, events,
                 exported, yielded, generate_calls, saving, found, verified, produced,
                 cum_at_done>>

\* save_chunk_audio (checkpoint.py 72-76): np.save creates the file ...
BlobOpen ==
  /\ pc = "blob_open"
  /\ chunk_npy' = [chunk_npy EXCEPT ![idx] = Truncated]
  /\ pc' = "blob_write"
  /\ UNCHANGED <<ov, state_json, external, cleanup_begun, run, ret, outcome, exc, mem, saving>>

\* ... and writes the array; the index is marked completed and
\* save_checkpoint called (app.py 1315-1323).
BlobWrite ==
  /\ pc = "blob_write"
  /\ chunk_npy' = [chunk_npy EXCEPT ![idx] =
                      Blob(concatenate(checkpoint_parts.items),
                           concatenate(ConvertAll(yielded)))]
  /\ completed_chunks' = completed_chunks \cup {idx}
  /\ IF checkpoint_state # None
     THEN /\ checkpoint_state' =
               [checkpoint_state EXCEPT !.completed_chunks = sorted(completed_chunks')]
          /\ pc' = "save_open"
          /\ ret' = "seq_end"
     ELSE /\ pc' = "seq_end"
          /\ UNCHANGED <<checkpoint_state, ret>>
  /\ UNCHANGED <<ov, state_json, external, cleanup_begun, run, outcome, exc, args, chapters, chunks,
                 chapter_start_indices, chunk_sample_offsets, cumulative_samples, idx,
                 processed_count, checkpoint_parts, sink, chapter_infos, events,
                 exported, yielded, generate_calls, saving, found, verified, produced, cum_at_done>>

\* The SAVED, timing and progress events of an inferred chunk
\* (app.py 1324-1343).
SeqEnd ==
  /\ pc = "seq_end"
  /\ events' = events
               \o (IF checkpoint_parts # None
                   THEN <<Event("checkpoint", "SAVED", idx)>> ELSE <<>>)
               \o <<Event("timing", "infer", idx), ProgressEvent(processed_count + 1)>>
  /\ processed_count' = processed_count + 1
  /\ cum_at_done' = Append(cum_at_done, <<idx, cumulative_samples>>)
  /\ idx' = idx + 1
  /\ pc' = "seq_top"
  /\ UNCHANGED <<ov, disk, external, cleanup_begun, run, ret, outcome, exc, args, chapters, chunks,
                 chapter_start_indices, completed_chunks, checkpoint_state,
                 chunk_sample_offsets, cumulative_samples, checkpoint_parts, sink,
                 chapter_infos, exported, yielded, generate_calls, saving, found, verified,
                 produced>>

(***************************************************************************)
(* Chapter derivation, export, cleanup and teardown (app.py 1485-1585).    *)
(***************************************************************************)
ChapterInfo(title, start_sample, end_sample) ==
  [title |-> title, start_sample |-> start_sample, end_sample |-> end_sample]

\* Spans that all run to the end of the audio.
RECURSIVE BuildChapterInfosToEnd(_, _, _, _)
BuildChapterInfosToEnd(starts, offsets, total_samples, i) ==
  IF i > Len(starts) THEN <<>>
  ELSE LET chunk_idx == starts[i][1]
           title == starts[i][2]
           start_sample == IF chunk_idx < Len(offsets) THEN offsets[chunk_idx + 1] ELSE 0
           chapter_title == IF title # "" THEN title ELSE "Chapter " \o ToString(i)
       IN <<ChapterInfo(chapter_title, start_sample, total_samples)>>
          \o BuildChapterInfosToEnd(starts, offsets, total_samples, i + 1)

\* The loop of app.py 1494-1518 from entry i on.
RECURSIVE BuildChapterInfos(_, _, _, _)
BuildChapterInfos(starts, offsets, total_samples, i) ==
  IF i > Len(starts) THEN <<>>
  ELSE LET chunk_idx == starts[i][1]
           title == starts[i][2]
           start_sample == IF chunk_idx < Len(offsets) THEN offsets[chunk_idx + 1] ELSE 0
           end_sample ==
             IF i + 1 <= Len(starts)
             THEN LET next_chunk_idx == starts[i + 1][1] IN
                    IF next_chunk_idx < Len(offsets)
                    THEN offsets[next_chunk_idx + 1] ELSE total_samples
             ELSE total_samples
           chapter_title == IF title # "" THEN title ELSE "Chapter " \o ToString(i)
       IN <<ChapterInfo(chapter_title, start_sample, end_sample)>>
          \o BuildChapterInfos(starts, offsets, total_samples, i + 1)

\* The CONCATENATING phase (app.py 1485-1518).
Concatenate ==
  /\ pc = "concat"
  /\ events' = Append(events, Event("phase", "CONCATENATING", -1))
  /\ chapter_infos' =
       IF args.config["format"] = "m4b" /\ chapter_start_indices # <<>>
       THEN BuildChapterInfos(chapter_start_indices, chunk_sample_offsets,
                              cumulative_samples, 1)
       ELSE <<>>
  /\ pc' = "export"
  /\ UNCHANGED <<ov, disk, external, cleanup_begun, run, ret, outcome, exc, args, chapters, chunks,
                 chapter_start_indices, completed_chunks, checkpoint_state,
                 chunk_sample_offsets, cumulative_samples, idx, processed_count,
                 checkpoint_parts, sink, exported, yielded, generate_calls,
                 saving, found, verified, produced, cum_at_done>>

\* The EXPORTING phase: the encoder returns (app.py 1520-1552).
Export ==
  /\ pc = "export"
  /\ events' = Append(events, Event("phase", "EXPORTING", -1))
  /\ exported' = TRUE
  /\ mp3_export_proc' = IF use_mp3_stream THEN "exited" ELSE mp3_export_proc
  /\ pc' = IF use_checkpoint THEN "cleanup" ELSE "done"
  /\ UNCHANGED <<pipeline, backend, spool_path, disk, external, cleanup_begun, run, ret, outcome, exc, args, chapters, chunks,
                 chapter_start_indices, completed_chunks, checkpoint_state,
                 chunk_sample_offsets, cumulative_samples, idx, processed_count,
                 checkpoint_parts, sink, chapter_infos, yielded, generate_calls, saving, found, verified, produced, cum_at_done>>

\* A failed export after which the checkpoint directory is removed all the same.
ExportFailsCleans ==
  /\ pc = "export"
  /\ events' = Append(events, Event("phase", "EXPORTING", -1))
  /\ \E e \in {"ffmpeg_not_found", "ffmpeg_failed"} : exc' = e
  /\ mp3_export_proc' = IF use_mp3_stream THEN "exited" ELSE mp3_export_proc
  /\ pc' = IF use_checkpoint THEN "cleanup" ELSE "finally"
  /\ UNCHANGED <<pipeline, backend, spool_path, disk, external, cleanup_begun, run, ret, outcome, args, chapters, chunks,
                 chapter_start_indices, completed_chunks, checkpoint_state,
                 chunk_sample_offsets, cumulative_samples, idx, processed_count,
                 checkpoint_parts, sink, chapter_infos, exported, yielded,
                 generate_calls, saving, found, verified, produced, cum_at_done>>

\* The encoder is not found (export from the spool file) or exits non-zero;
\* close_mp3_export_stream raises after the streaming encoder has exited.
ExportFails ==
  /\ pc = "export"
  /\ events' = Append(events, Event("phase", "EXPORTING", -1))
  /\ \E e \in (IF use_mp3_stream THEN {} ELSE {"ffmpeg_not_found"}) \cup {"ffmpeg_failed"} :
       Raise(e)
  /\ mp3_export_proc' = IF use_mp3_stream THEN "exited" ELSE mp3_export_proc
  /\ UNCHANGED <<pipeline, backend, spool_path, disk, external, cleanup_begun, run, ret, outcome, args, chapters, chunks,
                 chapter_start_indices, completed_chunks, checkpoint_state,
                 chunk_sample_offsets, cumulative_samples, idx, processed_count,
                 checkpoint_parts, sink, chapter_infos, exported, yielded,
                 generate_calls, saving, found, verified, produced, cum_at_done>>

\* cleanup_checkpoint (checkpoint.py 100-103): shutil.rmtree unlinks the
\* files of the directory one by one, in the order the directory lists them.
CleanupUnlinkManifest ==
  /\ pc = "cleanup"
  /\ state_json # NoFile
  /\ state_json' = NoFile
  /\ cleanup_begun' = TRUE
  /\ UNCHANGED <<ov, chunk_npy, external, run, pc, ret, outcome, exc, mem, saving>>

CleanupUnlinkBlob ==
  /\ pc = "cleanup"
  /\ \E i \in ChunkIds :
       /\ chunk_npy[i] # NoFile
       /\ chunk_npy' = [chunk_npy EXCEPT ![i] = NoFile]
  /\ cleanup_begun' = TRUE
  /\ UNCHANGED <<ov, state_json, external, run, pc, ret, outcome, exc, mem, saving>>

\* A removal of the directory that is not followed by the CLEANED event.
CleanupEndsSilent ==
  /\ pc = "cleanup"
  /\ state_json = NoFile
  /\ \A i \in ChunkIds : chunk_npy[i] = NoFile
  /\ cleanup_begun' = FALSE
  /\ pc' = "done"
  /\ UNCHANGED <<ov, disk, external, run, ret, outcome, exc, mem, saving>>

\* The directory is empty and removed; CLEANED is emitted (app.py 1554-1556).
CleanupEnds ==
  /\ pc = "cleanup"
  /\ state_json = NoFile
  /\ \A i \in ChunkIds : chunk_npy[i] = NoFile
  /\ events' = Append(events, Event("checkpoint", "CLEANED", -1))
  /\ cleanup_begun' = FALSE
  /\ pc' = "done"
  /\ UNCHANGED <<ov, disk, external, run, ret, outcome, exc, args, chapters, chunks,
                 chapter_start_indices, completed_chunks, checkpoint_state,
                 chunk_sample_offsets, cumulative_samples, idx, processed_count,
                 checkpoint_parts, sink, chapter_infos, exported, yielded,
                 generate_calls, saving, found, verified, produced, cum_at_done>>

\* events.emit("done", ...) (app.py 1558).
EmitDone ==
  /\ pc = "done"
  /\ events' = Append(events, Event("done", "", total_chunks))
  /\ pc' = "finally"
  /\ UNCHANGED <<ov, disk, external, cleanup_begun, run, ret, outcome, exc, args, chapters, chunks,
                 chapter_start_indices, completed_chunks, checkpoint_state,
                 chunk_sample_offsets, cumulative_samples, idx, processed_count,
                 checkpoint_parts, sink, chapter_infos, exported, yielded,
                 generate_calls, saving, found, verified, produced, cum_at_done>>

(***************************************************************************)
(* run_inference_overlap3 (app.py 1345-1471): an inference thread, a       *)
(* conversion thread and the controller, joined by two bounded queues and  *)
(* an error queue.                                                         *)
(***************************************************************************)
inference_queue_max == Max(2, args.prefetch_chunks * 2)
pcm_queue_max == Max(2, args.pcm_queue_size)

Msg(kind, i, payload) == [kind |-> kind, idx |-> i, payload |-> payload]
EndMsg == Msg("end", -1, None)

InferAt(p, i, held) == [pc |-> p, idx |-> i, held |-> held]
ConvertAt(p, held) == [pc |-> p, held |-> held]

\* The queues are created and the two threads started (app.py 1346-1401).
OvSetup ==
  /\ pc = "ov_setup"
  /\ IF ~use_mp3_stream
     THEN /\ Raise("mp3_not_writable")
          /\ UNCHANGED <<ov, processed_count>>
     ELSE /\ inference_queue' = <<>>
          /\ pcm_queue' = <<>>
          /\ worker_errors' = <<>>
          /\ infer_thread' = InferAt("put_start", 0, None)
          /\ convert_thread' = ConvertAt("get", None)
          /\ chunk_started' = [i \in 1..total_chunks |-> FALSE]
          /\ sent' = <<>>
          /\ raised' = {}
          /\ observed' = <<>>
          /\ since_heartbeat' = 0
          /\ ticked' = FALSE
          /\ processed_count' = 0
          /\ pc' = "ov_check"
          /\ UNCHANGED <<exc, resources>>
  /\ UNCHANGED <<disk, external, cleanup_begun, run, ret, outcome, args, chapters, chunks, chapter_start_indices,
                 completed_chunks, checkpoint_state, chunk_sample_offsets,
                 cumulative_samples, idx, checkpoint_parts, sink, chapter_infos, events,
                 exported, yielded, generate_calls, saving, found, verified, produced, cum_at_done>>

\* What the steps of the two worker threads leave unchanged.
WorkerFrame ==
  UNCHANGED <<disk, external, cleanup_begun, run, pc, ret, outcome, exc, args, chapters, chunks,
              chapter_start_indices, completed_chunks, checkpoint_state,
              chunk_sample_offsets, cumulative_samples, idx, processed_count,
              checkpoint_parts, sink, chapter_infos, events, exported, saving, found, verified,
              cum_at_done, chunk_started, observed, since_heartbeat, ticked, resources>>

\* An inference_worker that calls backend.generate for the chunk without
\* putting the chunk's Start message.
InferPutStartSilent ==
  /\ infer_thread.pc = "put_start"
  /\ generate_calls' = [generate_calls EXCEPT ![infer_thread.idx] = @ + 1]
  /\ yielded' = <<>>
  /\ infer_thread' = InferAt("gen", infer_thread.idx, None)
  /\ WorkerFrame
  /\ UNCHANGED raised
  /\ UNCHANGED <<inference_queue, sent, pcm_queue, worker_errors, convert_thread, produced>>

\* inference_worker: the Start message of a chunk is put and
\* backend.generate called (app.py 1358-1366).
InferPutStart ==
  /\ infer_thread.pc = "put_start"
  /\ Len(inference_queue) < inference_queue_max
  /\ inference_queue' = Append(inference_queue, Msg("start", infer_thread.idx, None))
  /\ sent' = Append(sent, Msg("start", infer_thread.idx, None))
  /\ generate_calls' = [generate_calls EXCEPT ![infer_thread.idx] = @ + 1]
  /\ yielded' = <<>>
  /\ infer_thread' = InferAt("gen", infer_thread.idx, None)
  /\ WorkerFrame
  /\ UNCHANGED raised
  /\ UNCHANGED <<pcm_queue, worker_errors, convert_thread, produced>>

\* inference_worker: backend.generate yields a buffer.
InferYield ==
  /\ infer_thread.pc = "gen"
  /\ Len(yielded) < MaxBuffers
  /\ \E audio \in AudioBuffers :
       /\ yielded' = Append(yielded, audio)
       /\ infer_thread' = InferAt("put_audio", infer_thread.idx, audio)
  /\ WorkerFrame
  /\ UNCHANGED raised
  /\ UNCHANGED sent
  /\ UNCHANGED <<inference_queue, pcm_queue, worker_errors, convert_thread,
                 generate_calls, produced>>

\* An inference_worker whose put of a buffer does not wait for a free slot.
InferPutAudioUnbounded ==
  /\ infer_thread.pc = "put_audio"
  /\ inference_queue' =
       Append(inference_queue, Msg("audio", infer_thread.idx, infer_thread.held))
  /\ sent' = Append(sent, Msg("audio", infer_thread.idx, infer_thread.held))
  /\ infer_thread' = InferAt("gen", infer_thread.idx, None)
  /\ WorkerFrame
  /\ UNCHANGED raised
  /\ UNCHANGED <<pcm_queue, worker_errors, convert_thread, yielded, generate_calls,
                 produced>>

\* inference_worker: the buffer is put on the inference queue (app.py 1367).
InferPutAudio ==
  /\ infer_thread.pc = "put_audio"
  /\ Len(inference_queue) < inference_queue_max
  /\ inference_queue' =
       Append(inference_queue, Msg("audio", infer_thread.idx, infer_thread.held))
  /\ sent' = Append(sent, Msg("audio", infer_thread.idx, infer_thread.held))
  /\ infer_thread' = InferAt("gen", infer_thread.idx, None)
  /\ WorkerFrame
  /\ UNCHANGED raised
  /\ UNCHANGED <<pcm_queue, worker_errors, convert_thread, yielded, generate_calls,
                 produced>>

\* inference_worker: backend.generate is exhausted (app.py 1368).
InferGenerateEnds ==
  /\ infer_thread.pc = "gen"
  /\ produced' = [produced EXCEPT ![infer_thread.idx] =
                    [src |-> "live", data |-> concatenate(ConvertAll(yielded)).data]]
  /\ infer_thread' = InferAt("put_done", infer_thread.idx, None)
  /\ WorkerFrame
  /\ UNCHANGED raised
  /\ UNCHANGED sent
  /\ UNCHANGED <<inference_queue, pcm_queue, worker_errors, convert_thread, yielded,
                 generate_calls>>

\* inference_worker: the Done message is put; the loop goes to the next
\* chunk or ends (app.py 1359, 1369).
InferPutDone ==
  /\ infer_thread.pc = "put_done"
  /\ Len(inference_queue) < inference_queue_max
  /\ inference_queue' = Append(inference_queue, Msg("done", infer_thread.idx, None))
  /\ sent' = Append(sent, Msg("done", infer_thread.idx, None))
  /\ infer_thread' =
       IF infer_thread.idx + 1 < total_chunks
       THEN InferAt("put_start", infer_thread.idx + 1, None)
       ELSE InferAt("put_end", infer_thread.idx + 1, None)
  /\ WorkerFrame
  /\ UNCHANGED raised
  /\ UNCHANGED <<pcm_queue, worker_errors, convert_thread, yielded, generate_calls,
                 produced>>

\* An inference_worker whose exception does not reach the error queue.
InferGenerateRaisesUnreported ==
  /\ infer_thread.pc = "gen"
  /\ infer_thread' = InferAt("put_end", infer_thread.idx, None)
  /\ raised' = raised \cup {"inference"}
  /\ WorkerFrame
  /\ UNCHANGED <<sent, inference_queue, pcm_queue, worker_errors, convert_thread, yielded,
                 generate_calls, produced>>

\* inference_worker: backend.generate raises; the exception goes to the
\* error queue (app.py 1370-1371).
InferGenerateRaises ==
  /\ infer_thread.pc = "gen"
  /\ worker_errors' = Append(worker_errors, "backend")
  /\ infer_thread' = InferAt("put_end", infer_thread.idx, None)
  /\ raised' = raised \cup {"inference"}
  /\ WorkerFrame
  /\ UNCHANGED sent
  /\ UNCHANGED <<inference_queue, pcm_queue, convert_thread, yielded, generate_calls,
                 produced>>

\* inference_worker: the finally clause puts End (app.py 1372-1373).
InferPutEnd ==
  /\ infer_thread.pc = "put_end"
  /\ Len(inference_queue) < inference_queue_max
  /\ inference_queue' = Append(inference_queue, EndMsg)
  /\ sent' = Append(sent, EndMsg)
  /\ infer_thread' = InferAt("finished", infer_thread.idx, None)
  /\ WorkerFrame
  /\ UNCHANGED raised
  /\ UNCHANGED <<pcm_queue, worker_errors, convert_thread, yielded, generate_calls,
                 produced>>

\* A convert_worker that forwards the payload as the backend yielded it.
ConvertGetRaw ==
  /\ convert_thread.pc = "get"
  /\ inference_queue # <<>>
  /\ LET msg == Head(inference_queue) IN
       convert_thread' =
         IF msg.kind = "end" THEN ConvertAt("put_end", None) ELSE ConvertAt("put", msg)
  /\ inference_queue' = Tail(inference_queue)
  /\ WorkerFrame
  /\ UNCHANGED raised
  /\ UNCHANGED sent
  /\ UNCHANGED <<pcm_queue, worker_errors, infer_thread, yielded, generate_calls,
                 produced>>

\* convert_worker: a message is taken; End leaves the loop, an Audio
\* payload is converted (app.py 1377-1383).
ConvertGet ==
  /\ convert_thread.pc = "get"
  /\ inference_queue # <<>>
  /\ LET msg == Head(inference_queue) IN
       convert_thread' =
         IF msg.kind = "end" THEN ConvertAt("put_end", None)
         ELSE IF msg.kind = "audio"
              THEN ConvertAt("put", Msg(msg.kind, msg.idx, audio_to_int16(msg.payload)))
         ELSE ConvertAt("put", msg)
  /\ inference_queue' = Tail(inference_queue)
  /\ WorkerFrame
  /\ UNCHANGED raised
  /\ UNCHANGED sent
  /\ UNCHANGED <<pcm_queue, worker_errors, infer_thread, yielded, generate_calls,
                 produced>>

\* convert_worker: audio_to_int16 raises on the payload taken (a value that
\* is no numeric array, a failed device transfer); the exception goes to the
\* error queue (app.py 1382-1383, 1385-1386).
ConvertRaises ==
  /\ convert_thread.pc = "get"
  /\ inference_queue # <<>>
  /\ Head(inference_queue).kind = "audio"
  /\ inference_queue' = Tail(inference_queue)
  /\ worker_errors' = Append(worker_errors, "convert")
  /\ convert_thread' = ConvertAt("put_end", None)
  /\ raised' = raised \cup {"conversion"}
  /\ WorkerFrame
  /\ UNCHANGED <<sent, pcm_queue, infer_thread, yielded, generate_calls, produced>>

\* A convert_worker that puts its message at the head of the PCM queue.
ConvertPutFront ==
  /\ convert_thread.pc = "put"
  /\ Len(pcm_queue) < pcm_queue_max
  /\ pcm_queue' = <<convert_thread.held>> \o pcm_queue
  /\ convert_thread' = ConvertAt("get", None)
  /\ WorkerFrame
  /\ UNCHANGED raised
  /\ UNCHANGED <<sent, inference_queue, worker_errors, infer_thread, yielded, generate_calls,
                 produced>>

\* convert_worker: the message is put on the PCM queue (app.py 1384).
ConvertPut ==
  /\ convert_thread.pc = "put"
  /\ Len(pcm_queue) < pcm_queue_max
  /\ pcm_queue' = Append(pcm_queue, convert_thread.held)
  /\ convert_thread' = ConvertAt("get", None)
  /\ WorkerFrame
  /\ UNCHANGED raised
  /\ UNCHANGED sent
  /\ UNCHANGED <<inference_queue, worker_errors, infer_thread, yielded, generate_calls,
                 produced>>

\* convert_worker: the finally clause puts End (app.py 1387-1388).
ConvertPutEnd ==
  /\ convert_thread.pc = "put_end"
  /\ Len(pcm_queue) < pcm_queue_max
  /\ pcm_queue' = Append(pcm_queue, EndMsg)
  /\ convert_thread' = ConvertAt("finished", None)
  /\ WorkerFrame
  /\ UNCHANGED raised
  /\ UNCHANGED sent
  /\ UNCHANGED <<inference_queue, worker_errors, infer_thread, yielded, generate_calls,
                 produced>>

\* What the steps of the controller leave unchanged besides the variables
\* of the message it handles.
ControllerFrame ==
  UNCHANGED <<disk, external, cleanup_begun, run, ret, outcome, args, chapters, chunks, chapter_start_indices,
              completed_chunks, checkpoint_state, idx, checkpoint_parts, chapter_infos,
              exported, yielded, generate_calls, saving, found, verified, produced,
              inference_queue, infer_thread, convert_thread, sent, raised, resources>>

\* The controller finds an exception on the error queue and raises it; the
\* finally clause joins the threads (app.py 1406-1408, 1467-1469).
OvWorkerError ==
  /\ pc \in {"ov_check", "ov_after_end"}
  /\ worker_errors # <<>>
  /\ exc' = Head(worker_errors)
  /\ worker_errors' = Tail(worker_errors)
  /\ pc' = "ov_join"
  /\ ControllerFrame
  /\ UNCHANGED <<since_heartbeat, ticked>>
  /\ UNCHANGED observed
  /\ UNCHANGED <<pcm_queue, chunk_started, chunk_sample_offsets, cumulative_samples,
                 processed_count, sink, events, cum_at_done>>

\* The message at the head of the PCM queue, taken by the controller.
Taken == Head(pcm_queue)

\* emit_heartbeat_if_needed (app.py 1218-1224): the interval of 5 seconds is
\* HeartbeatInterval ticks.  Time is followed in the controller loop of the
\* overlapped pipeline only; one iteration of that loop, a get that times
\* out or a message taken and handled, lasts at most one tick.
HeartbeatInterval == 2

HeartbeatIfNeeded ==
  IF since_heartbeat >= HeartbeatInterval THEN <<Event("heartbeat", "", -1)>> ELSE <<>>

SinceAfterCheck == IF since_heartbeat >= HeartbeatInterval THEN 0 ELSE since_heartbeat

\* The heartbeats explored in one run.
MaxHeartbeats == 2

Heartbeats == Len(SelectSeq(events, LAMBDA e : e.type = "heartbeat"))

\* A tick passes while the controller waits in pcm_queue.get or handles
\* the message it got.
Tick ==
  /\ pc = "ov_get"
  /\ ~ticked
  /\ Heartbeats < MaxHeartbeats
  /\ since_heartbeat' = since_heartbeat + 1
  /\ ticked' = TRUE
  /\ UNCHANGED <<disk, external, cleanup_begun, run, pc, ret, outcome, exc, mem, saving,
                 inference_queue, pcm_queue, worker_errors, infer_thread, convert_thread,
                 chunk_started, sent, raised, observed, resources>>

\* The controller finds the error queue empty and goes on to
\* pcm_queue.get (app.py 1406-1410).
OvCheck ==
  /\ pc = "ov_check"
  /\ worker_errors = <<>>
  /\ pc' = "ov_get"
  /\ ticked' = FALSE
  /\ ControllerFrame
  /\ UNCHANGED since_heartbeat
  /\ UNCHANGED <<exc, observed, pcm_queue, worker_errors, chunk_started,
                 chunk_sample_offsets, cumulative_samples, processed_count, sink, events,
                 cum_at_done>>

\* The guard of a controller step that takes a message of the given kind
\* (app.py 1410, 1414).
Takes(kind) ==
  /\ pc = "ov_get"
  /\ pcm_queue # <<>>
  /\ Taken.kind = kind
  /\ pcm_queue' = Tail(pcm_queue)
  /\ observed' = Append(observed, Taken)

\* pcm_queue.get(timeout=0.25) raises queue.Empty: the heartbeat check, and
\* back to the top of the loop (app.py 1409-1413).
OvTimeout ==
  /\ pc = "ov_get"
  /\ pcm_queue = <<>>
  /\ ticked
  /\ events' = events \o HeartbeatIfNeeded
  /\ since_heartbeat' = SinceAfterCheck
  /\ pc' = "ov_check"
  /\ ControllerFrame
  /\ UNCHANGED <<exc, ticked, observed, pcm_queue, worker_errors, chunk_started,
                 chunk_sample_offsets, cumulative_samples, processed_count, sink,
                 cum_at_done>>

InvalidIndex(i) == i < 0 \/ i >= total_chunks

\* End: the loop is left (app.py 1416-1417).
OvEnd ==
  /\ Takes("end")
  /\ pc' = "ov_after_end"
  /\ ControllerFrame
  /\ UNCHANGED <<since_heartbeat, ticked>>
  /\ UNCHANGED <<exc, worker_errors, chunk_started, chunk_sample_offsets,
                 cumulative_samples, processed_count, sink, events, cum_at_done>>

\* Start: the chunk's offset is recorded (app.py 1419-1431).
OvStart ==
  /\ Takes("start")
  /\ IF InvalidIndex(Taken.idx)
     THEN /\ Raise("invalid_chunk_index")
          /\ UNCHANGED <<chunk_sample_offsets, chunk_started, events>>
     ELSE /\ chunk_sample_offsets' =
               [chunk_sample_offsets EXCEPT ![Taken.idx + 1] = cumulative_samples]
          /\ chunk_started' = [chunk_started EXCEPT ![Taken.idx + 1] = TRUE]
          /\ events' = Append(events, Event("worker", "INFER", Taken.idx))
          /\ pc' = "ov_check"
          /\ UNCHANGED exc
  /\ ControllerFrame
  /\ UNCHANGED <<since_heartbeat, ticked>>
  /\ UNCHANGED <<worker_errors, cumulative_samples, processed_count, sink, cum_at_done>>

\* An Audio step that writes the buffer without counting its samples.
OvAudioNoCount ==
  /\ Takes("audio")
  /\ chunk_sample_offsets' =
       IF ~chunk_started[Taken.idx + 1]
       THEN [chunk_sample_offsets EXCEPT ![Taken.idx + 1] = cumulative_samples]
       ELSE chunk_sample_offsets
  /\ chunk_started' = [chunk_started EXCEPT ![Taken.idx + 1] = TRUE]
  /\ sink' = Append(sink, Write(Taken.idx, "live", Taken.payload))
  /\ ControllerFrame
  /\ UNCHANGED <<since_heartbeat, ticked>>
  /\ pc' = "ov_check"
  /\ UNCHANGED <<exc, cumulative_samples, worker_errors, processed_count, events,
                 cum_at_done>>

\* Audio: the converted buffer is written to the encoder (app.py 1433-1440).
OvAudio ==
  /\ Takes("audio")
  /\ IF InvalidIndex(Taken.idx)
     THEN /\ Raise("invalid_chunk_index")
          /\ UNCHANGED <<chunk_sample_offsets, chunk_started, sink, cumulative_samples>>
     ELSE /\ chunk_sample_offsets' =
               IF ~chunk_started[Taken.idx + 1]
               THEN [chunk_sample_offsets EXCEPT ![Taken.idx + 1] = cumulative_samples]
               ELSE chunk_sample_offsets
          /\ chunk_started' = [chunk_started EXCEPT ![Taken.idx + 1] = TRUE]
          /\ sink' = Append(sink, Write(Taken.idx, "live", Taken.payload))
          /\ cumulative_samples' = cumulative_samples + Len(Taken.payload.data)
          /\ pc' = "ov_check"
          /\ UNCHANGED exc
  /\ ControllerFrame
  /\ UNCHANGED <<since_heartbeat, ticked>>
  /\ UNCHANGED <<worker_errors, processed_count, events, cum_at_done>>

\* Done: the ENCODE, timing and progress events (app.py 1442-1466).
OvDone ==
  /\ Takes("done")
  /\ IF InvalidIndex(Taken.idx)
     THEN /\ Raise("invalid_chunk_index")
          /\ UNCHANGED <<events, processed_count, cum_at_done, since_heartbeat>>
     ELSE /\ events' = events \o <<Event("worker", "ENCODE", Taken.idx),
                                   Event("timing", "infer", Taken.idx),
                                   ProgressEvent(processed_count + 1)>>
                              \o HeartbeatIfNeeded
          /\ since_heartbeat' = SinceAfterCheck
          /\ processed_count' = processed_count + 1
          /\ cum_at_done' = Append(cum_at_done, <<Taken.idx, cumulative_samples>>)
          /\ pc' = "ov_check"
          /\ UNCHANGED exc
  /\ ControllerFrame
  /\ UNCHANGED ticked
  /\ UNCHANGED <<worker_errors, chunk_started, chunk_sample_offsets, cumulative_samples,
                 sink>>

\* After End with no exception on the error queue, the finally clause
\* (app.py 1465-1469).
OvLoopExit ==
  /\ pc = "ov_after_end"
  /\ worker_errors = <<>>
  /\ pc' = "ov_join"
  /\ ControllerFrame
  /\ UNCHANGED <<since_heartbeat, ticked>>
  /\ UNCHANGED observed
  /\ UNCHANGED <<exc, pcm_queue, worker_errors, chunk_started, chunk_sample_offsets,
                 cumulative_samples, processed_count, sink, events, cum_at_done>>

\* A finally clause that joins the two threads without a timeout.
OvJoinWaits ==
  /\ pc = "ov_join"
  /\ infer_thread.pc = "finished"
  /\ convert_thread.pc = "finished"
  /\ pc' = IF exc # "" THEN "finally" ELSE "concat"
  /\ ControllerFrame
  /\ UNCHANGED <<since_heartbeat, ticked>>
  /\ UNCHANGED <<exc, observed, pcm_queue, worker_errors, chunk_started, chunk_sample_offsets,
                 cumulative_samples, processed_count, sink, events, cum_at_done>>

\* join(timeout=2) of both threads returns whether or not they have ended;
\* the function returns or the exception propagates (app.py 1467-1469).
OvJoin ==
  /\ pc = "ov_join"
  /\ pc' = IF exc # "" THEN "finally" ELSE "concat"
  /\ ControllerFrame
  /\ UNCHANGED <<since_heartbeat, ticked>>
  /\ UNCHANGED observed
  /\ UNCHANGED <<exc, pcm_queue, worker_errors, chunk_started, chunk_sample_offsets,
                 cumulative_samples, processed_count, sink, events, cum_at_done>>

\* A finally clause that cleans up the backend only.
FinallyBackendOnly ==
  /\ pc = "finally"
  /\ backend' = IF backend # "none" THEN "cleaned" ELSE backend
  /\ pc' = "exit"
  /\ UNCHANGED <<mp3_export_proc, spool_path>>
  /\ UNCHANGED <<pipeline, disk, external, cleanup_begun, run, ret, outcome, exc, mem, saving>>

\* The finally clause of main (app.py 1563-1580): backend.cleanup() if a
\* backend object exists; the stdin of an encoder that is still running is
\* closed and the process waited for, or killed after 5 seconds; the spool
\* file is removed.  The worker threads of the overlapped pipeline, if any
\* are left, go on running.
Finally ==
  /\ pc = "finally"
  /\ backend' = IF backend # "none" THEN "cleaned" ELSE backend
  /\ mp3_export_proc' = IF mp3_export_proc = "running" THEN "exited" ELSE mp3_export_proc
  /\ spool_path' = IF spool_path = "exists" THEN "removed" ELSE spool_path
  /\ pc' = "exit"
  /\ UNCHANGED <<pipeline, disk, external, cleanup_begun, run, ret, outcome, exc, mem, saving>>

\* An exception handler that re-raises without reporting.
ExitSilent ==
  /\ pc = "exit"
  /\ outcome' = IF exc # "" THEN "error" ELSE "ok"
  /\ pc' = "idle"
  /\ infer_thread' = NoThread
  /\ convert_thread' = NoThread
  /\ UNCHANGED <<disk, external, cleanup_begun, run, ret, exc, args, chapters, chunks, chapter_start_indices,
                 completed_chunks, checkpoint_state, chunk_sample_offsets,
                 cumulative_samples, idx, processed_count, checkpoint_parts, sink,
                 chapter_infos, events, exported, yielded, generate_calls, saving, found,
                 verified, produced, cum_at_done, inference_queue, pcm_queue, worker_errors,
                 chunk_started, sent, raised, observed, since_heartbeat, ticked, resources>>

\* The exception handler of main and the end of the process
\* (app.py 1581-1585); the daemon threads end with it.
Exit ==
  /\ pc = "exit"
  /\ events' = IF exc # "" THEN Append(events, Event("error", exc, -1)) ELSE events
  /\ outcome' = IF exc # "" THEN "error" ELSE "ok"
  /\ pc' = "idle"
  /\ infer_thread' = NoThread
  /\ convert_thread' = NoThread
  /\ UNCHANGED <<disk, external, cleanup_begun, run, ret, exc, args, chapters, chunks, chapter_start_indices,
                 completed_chunks, checkpoint_state, chunk_sample_offsets,
                 cumulative_samples, idx, processed_count, checkpoint_parts, sink,
                 chapter_infos, exported, yielded, generate_calls, saving, found, verified,
                 produced, cum_at_done, inference_queue, pcm_queue, worker_errors,
                 chunk_started, sent, raised, observed, since_heartbeat, ticked, resources>>

\* The process is terminated from outside: its memory is lost, the
\* checkpoint directory stays as it is.
Kill ==
  /\ pc # "idle"
  /\ pc' = "idle"
  /\ outcome' = "killed"
  /\ ret' = "idle"
  /\ exc' = ""
  /\ args' = NoArgs
  /\ chapters' = <<>>
  /\ chunks' = <<>>
  /\ chapter_start_indices' = <<>>
  /\ completed_chunks' = {}
  /\ checkpoint_state' = None
  /\ chunk_sample_offsets' = <<>>
  /\ cumulative_samples' = 0
  /\ idx' = 0
  /\ processed_count' = 0
  /\ checkpoint_parts' = None
  /\ sink' = <<>>
  /\ chapter_infos' = <<>>
  /\ events' = <<>>
  /\ exported' = FALSE
  /\ yielded' = <<>>
  /\ generate_calls' = [i \in ChunkIds |-> 0]
  /\ found' = NothingFound
  /\ verified' = <<>>
  /\ produced' = [i \in ChunkIds |-> None]
  /\ cum_at_done' = <<>>
  /\ NoPipeline
  /\ UNCHANGED <<disk, external, cleanup_begun, run, saving>>

(***************************************************************************)
(* The environment, between runs: a chunk file is deleted, or the          *)
(* directory holds a manifest written for another chunking of the input.   *)
(***************************************************************************)
MaxExternal == 1

ExternalRemoveBlob ==
  /\ pc = "idle"
  /\ external < MaxExternal
  /\ load_checkpoint(state_json) # None
  /\ \E i \in SetOf(state_json.completed_chunks) :
       /\ chunk_npy[i] # NoFile
       /\ chunk_npy' = [chunk_npy EXCEPT ![i] = NoFile]
  /\ external' = external + 1
  /\ UNCHANGED <<ov, state_json, cleanup_begun, run, pc, ret, outcome, exc, mem, saving>>

ExternalManifest ==
  /\ pc = "idle"
  /\ external < MaxExternal
  /\ load_checkpoint(state_json) # None
  /\ state_json' = [state_json EXCEPT !.total_chunks = @ + 1]
  /\ external' = external + 1
  /\ UNCHANGED <<ov, chunk_npy, cleanup_begun, run, pc, ret, outcome, exc, mem, saving>>

Next == StartRun \/ StartRunFails \/ InitBackend \/ InitBackendFails \/ CheckpointInit \/ SaveOpen
        \/ SaveDump \/ BeginInference \/ SeqLoopExit \/ SeqReuse \/ SeqMissing
        \/ SeqMissingInfer \/ SeqFresh \/ SeqYield \/ SeqGenerateRaises
        \/ SeqGenerateEnds \/ BlobOpen \/ BlobWrite \/ SeqEnd
        \/ OvSetup \/ InferPutStart \/ InferYield \/ InferPutAudio
        \/ InferGenerateEnds \/ InferPutDone \/ InferGenerateRaises \/ InferPutEnd
        \/ ConvertGet \/ ConvertRaises \/ ConvertPut \/ ConvertPutEnd
        \/ OvWorkerError \/ OvCheck \/ Tick \/ OvTimeout \/ OvEnd \/ OvStart \/ OvAudio \/ OvDone \/ OvLoopExit
        \/ OvJoin \/ Concatenate
        \/ Export \/ ExportFails \/ CleanupUnlinkManifest \/ CleanupUnlinkBlob
        \/ CleanupEnds \/ EmitDone \/ Finally \/ Exit \/ Kill
        \/ ExternalRemoveBlob \/ ExternalManifest

Spec == Init /\ [][Next]_vars

(***************************************************************************)
(* Properties of the run: production of chapters, chunks, resume, the checkpoint on  *)
(* disk.                                                                   *)
(***************************************************************************)
HasEvent(type, code) ==
  \E k \in 1..Len(events) : events[k].type = type /\ events[k].code = code

HasChunkEvent(type, code, i) ==
  \E k \in 1..Len(events) :
    events[k].type = type /\ events[k].code = code /\ events[k].idx = i

Indices == 0..(total_chunks - 1)

\* The writes the sink received for chunk i, and their samples in order.
WritesOf(i) == SelectSeq(sink, LAMBDA w : w.idx = i)
SamplesOf(i) == Flatten([k \in 1..Len(WritesOf(i)) |-> WritesOf(i)[k].data])

\* Every chunk has been handled by the inference loop of this run.
LoopFinished == total_chunks > 0 /\ processed_count = total_chunks

InOrder == \A k \in 1..(Len(sink) - 1) : sink[k].idx <= sink[k + 1].idx

Reused(i) ==
  /\ generate_calls[i] = 0
  /\ Len(WritesOf(i)) = 1
  /\ WritesOf(i)[1].src = "blob"

Inferred(i) ==
  /\ generate_calls[i] = 1
  /\ \A k \in 1..Len(WritesOf(i)) : WritesOf(i)[k].src = "live"

\* C1: when a sequential run has left the inference loop, the sink holds,
\* for every chunk index, that chunk's audio exactly once; the writes are in
\* the order of the chunk indices; and every chunk was either reused from
\* its blob (one blob write, no generate call) or inferred (one generate
\* call, live writes only), never both and never neither.
C1_ExactlyOnceInOrder ==
  (pc = "concat" /\ args.pipeline_mode = "sequential") =>
    /\ InOrder
    /\ \A k \in 1..Len(sink) : sink[k].idx \in Indices
    /\ \A i \in Indices :
         /\ produced[i] # None
         /\ SamplesOf(i) = produced[i].data
         /\ Reused(i) \/ Inferred(i)
         /\ ~(Reused(i) /\ Inferred(i))

\* A resumed run at the end of its loop with one chunk reused and the other
\* inferred from a buffer.
C1_Witness ==
  /\ pc = "concat"
  /\ args.pipeline_mode = "sequential"
  /\ \E i, j \in Indices :
       /\ i < j
       /\ Reused(i) /\ SamplesOf(i) # <<>>
       /\ Inferred(j) /\ SamplesOf(j) # <<>>

\* The run was started with --resume and took the stored completed set.
Accepted == args.resume /\ HasEvent("checkpoint", "RESUMING")

\* The indices of the loaded completed set whose blob loaded when the run
\* started.
Reusable ==
  IF load_checkpoint(found.state_json) = None THEN {}
  ELSE SetOf(found.state_json.completed_chunks) \cap found.loadable \cap Indices

\* C2: in a run with --resume whose checkpoint was accepted, generate is
\* never called for an index of the loaded completed set whose blob loads,
\* never more than once for any index, and, once the loop has handled every
\* chunk, exactly once for every other index.
C2_ResumeSkipsCompleted ==
  Accepted =>
    /\ \A i \in Reusable : generate_calls[i] = 0
    /\ \A i \in Indices : generate_calls[i] <= 1
    /\ LoopFinished => \A i \in Indices \ Reusable : generate_calls[i] = 1

\* An accepted resume that has finished its loop with a reused and an
\* inferred chunk.
C2_Witness ==
  /\ Accepted
  /\ LoopFinished
  /\ Reusable # {}
  /\ Indices \ Reusable # {}
  /\ pc = "export"

\* The indices the accepted manifest marks completed whose blob did not load
\* when the run started.
MarkedButMissing ==
  IF load_checkpoint(found.state_json) = None THEN {}
  ELSE (SetOf(found.state_json.completed_chunks) \cap Indices) \ found.loadable

PersistedCompleted ==
  IF load_checkpoint(state_json) = None THEN {}
  ELSE SetOf(state_json.completed_chunks)

\* C3: in an accepted resume, for an index i marked completed whose blob is
\* absent: while i is being inferred, i is neither in the completed set in
\* memory nor in the manifest on disk, and that manifest loads; while the
\* run goes on, until the export, the manifest on disk lists i again only
\* when the blob of i holds the audio inferred in this run; and a finished
\* loop has inferred i once.
C3_MissingBlobReinferred ==
  Accepted =>
    \A i \in MarkedButMissing :
      /\ (pc = "seq_gen" /\ idx = i) =>
           /\ i \notin completed_chunks
           /\ load_checkpoint(state_json) # None
           /\ i \notin PersistedCompleted
      /\ (pc # "idle" /\ generate_calls[i] >= 1 /\ ~exported
            /\ i \in PersistedCompleted) =>
           /\ produced[i] # None
           /\ load_chunk_audio(chunk_npy[i]) # None
           /\ chunk_npy[i].data = produced[i].data
      /\ LoopFinished => generate_calls[i] = 1 /\ Inferred(i)

\* Chunk i, marked completed with its blob absent, is being inferred again.
C3_Witness ==
  /\ Accepted
  /\ pc = "seq_gen"
  /\ idx \in MarkedButMissing
  /\ HasChunkEvent("checkpoint", "MISSING_AUDIO", idx)
  /\ yielded # <<>>

\* Every index the manifest on disk marks completed has a blob that loads
\* and holds the whole audio of the chunk.
ManifestBacked ==
  \A i \in PersistedCompleted :
    /\ load_chunk_audio(chunk_npy[i]) # None
    /\ chunk_npy[i].data = chunk_npy[i].full

\* C4 as stated: as long as nothing but the program removes blobs, every
\* index in the completed set of the manifest on disk has a blob holding the
\* chunk's complete audio, at every point of a run and after a termination.
C4_ManifestBackedAlways == external = 0 => ManifestBacked

\* C4: the same, as long as no removal of the checkpoint directory has
\* begun that has not finished.
C4_ManifestBackedUntilCleanup == (external = 0 /\ ~cleanup_begun) => ManifestBacked

\* A run was terminated while the blob of the second chunk was being
\* written; the manifest marks the first chunk only.
C4_Witness ==
  /\ external = 0
  /\ ~cleanup_begun
  /\ pc = "idle"
  /\ outcome = "killed"
  /\ PersistedCompleted = {0}
  /\ chunk_npy[0].data # <<>>
  /\ chunk_npy[1] = Truncated

\* C5 as stated: after the process died during a save that replaces a
\* manifest that loaded, load returns the old or the new manifest.
C5_SaveCrashAtomic ==
  (pc = "idle" /\ outcome = "killed" /\ saving # None
     /\ load_checkpoint(saving.old) # None)
  => load_checkpoint(state_json) \in {saving.old, saving.new}

\* What verify_checkpoint has to establish, spelt out on the directory as
\* the run found it: the manifest loads, the fingerprints agree and each of
\* the nine options agrees.
FoundMatches ==
  /\ load_checkpoint(found.state_json) # None
  /\ found.state_json.epub_hash = compute_epub_hash(args.input)
  /\ \A key \in {"voice", "speed", "lang_code", "backend", "chunk_chars",
                 "split_pattern", "format", "bitrate", "normalize"} :
       Get(found.state_json.config, key) = Get(args.config, key)

FoundAcceptable == FoundMatches /\ found.state_json.total_chunks = total_chunks

ExpectedFailures ==
  {"", "no_chunks", "backend_init", "backend", "ffmpeg_not_found", "ffmpeg_failed"}

\* The errors of the argument checks at the head of main.
ArgumentErrors == {"input_not_found", "prefetch_chunks", "pcm_queue_size"}

FilesRemoved ==
  \/ state_json # NoFile /\ state_json' = NoFile
  \/ \E i \in ChunkIds : chunk_npy[i] # NoFile /\ chunk_npy'[i] = NoFile

\* C8: a step of the program deletes a file of the checkpoint directory only
\* after the export has returned successfully; a run that has raised
\* (backend error, encoder not found, encoder failed) never enters cleanup
\* and never emits CLEANED, so what it wrote stays on disk.
C8_CleanupOnlyAfterExport ==
  /\ [](exc # "" => pc # "cleanup" /\ ~HasEvent("checkpoint", "CLEANED"))
  /\ [][(pc # "idle" /\ FilesRemoved) => (exported /\ exc = "")]_vars

\* A checkpointed run whose encoder failed has ended; the manifest with
\* every chunk completed and the blobs are on disk.
C8_Witness ==
  /\ pc = "idle"
  /\ outcome = "error"
  /\ exc = "ffmpeg_failed"
  /\ args.checkpoint
  /\ total_chunks = 2
  /\ PersistedCompleted = Indices
  /\ \A i \in Indices : load_chunk_audio(chunk_npy[i]) # None

\* The sample count of chunk j as the run obtained it.
ChunkSamples(j) == IF produced[j] = None THEN 0 ELSE Len(produced[j].data)

RECURSIVE SamplesUpTo(_)
SamplesUpTo(i) == IF i < 0 THEN 0 ELSE ChunkSamples(i) + SamplesUpTo(i - 1)

\* The position in the sink of the first write of chunk i.
FirstWrite(i) == CHOOSE k \in 1..Len(sink) :
                   sink[k].idx = i /\ \A m \in 1..(k - 1) : sink[m].idx # i

\* C9: in both modes, cumulative_samples as it was when chunk i had been
\* processed is the sum of the sample counts of chunks 0..i, and the offset
\* recorded for a chunk that has a write in the sink is cumulative_samples as
\* it was before the first write of that chunk (the blob, when reused).
C9_SampleAccounting ==
  /\ \A k \in 1..Len(cum_at_done) :
       /\ \A j \in 0..cum_at_done[k][1] : produced[j] # None
       /\ cum_at_done[k][2] = SamplesUpTo(cum_at_done[k][1])
  /\ \A i \in Indices :
       WritesOf(i) # <<>> => chunk_sample_offsets[i + 1] = sink[FirstWrite(i)].at

\* An overlapped run has processed both chunks, the second starting at a
\* positive offset.
C9_Witness ==
  /\ args.pipeline_mode = "overlap3"
  /\ Len(cum_at_done) = 2
  /\ WritesOf(1) # <<>>
  /\ chunk_sample_offsets[2] > 0
  /\ cum_at_done[2] = <<1, 4>>

(***************************************************************************)
(* Properties of the overlapped pipeline (app.py 1345-1471).               *)
(***************************************************************************)
\* The messages of chunk i the controller has taken, in the order taken.
ObservedOf(i) == SelectSeq(observed, LAMBDA m : m.idx = i)

\* A prefix of Start, Audio ..., Done.
StartAudioDone(ms) ==
  \A k \in 1..Len(ms) :
    /\ k = 1 => ms[k].kind = "start"
    /\ k > 1 => ms[k].kind \in {"audio", "done"}
    /\ ms[k].kind = "done" => k = Len(ms)

\* run_inference_overlap3 has returned without raising.
OverlapReturned ==
  /\ args.pipeline_mode = "overlap3"
  /\ exc = ""
  /\ pc \in {"concat", "export", "done", "finally", "exit", "idle"}
  /\ observed # <<>>

\* C11: in an overlapped run the messages the controller has taken for one
\* chunk index are, at every moment and in every interleaving, a prefix of
\* Start, Audio ..., Done: one Start first, then only Audio messages, then
\* one Done and nothing after it, so no Audio or Done of an index precedes
\* that index's Start; every message taken but End carries an index of the
\* chunk list; and when the function has returned normally every index has
\* its Start and its Done.
C11_StartAudioDonePerChunk ==
  /\ \A k \in 1..Len(observed) :
       observed[k].kind # "end" => observed[k].idx \in Indices
  /\ \A i \in Indices : StartAudioDone(ObservedOf(i))
  /\ OverlapReturned =>
       \A i \in Indices :
         /\ ObservedOf(i) # <<>>
         /\ ObservedOf(i)[Len(ObservedOf(i))].kind = "done"

\* An overlapped run of two chunks has returned; the controller took Start,
\* Audio and Done of both.
C11_Witness ==
  /\ OverlapReturned
  /\ pc = "concat"
  /\ total_chunks = 2
  /\ \A i \in Indices : Len(ObservedOf(i)) = 3 /\ ObservedOf(i)[2].kind = "audio"

\* A message as convert_worker republishes it (app.py 1382-1384).
Republished(m) ==
  IF m.kind = "audio" THEN Msg("audio", m.idx, audio_to_int16(m.payload)) ELSE m

RepublishedAll(ms) == [k \in 1..Len(ms) |-> Republished(ms[k])]

\* The message convert_worker has taken and not yet put; after the End of
\* the inference queue that is the End of its finally clause.
ConvertHeld ==
  IF convert_thread.pc = "put" THEN <<convert_thread.held>>
  ELSE IF convert_thread.pc = "put_end" THEN <<EndMsg>>
  ELSE <<>>

\* audio_to_int16 has raised in convert_worker.
ConvertRaised == "conversion" \in raised

IsPrefix(a, b) == Len(a) <= Len(b) /\ a = SubSeq(b, 1, Len(a))

WithoutEnd(ms) == SelectSeq(ms, LAMBDA m : m.kind # "end")

\* C12: while the threads of an overlapped run exist and the conversion has
\* not raised, the messages the controller has taken, followed by the PCM
\* queue, the message convert_worker holds and the inference queue, are
\* exactly the messages inference_worker has put, in its order, Audio
\* payloads converted: nothing is lost, repeated or reordered.  In every
\* case what has reached the PCM queue is, End aside, a prefix of what was
\* put; the controller takes messages in non-decreasing chunk index, takes
\* nothing after End, and, if the conversion has not raised, has taken every
\* message put when it takes End.
C12_RepublishedOnceInOrder ==
  (args.pipeline_mode = "overlap3" /\ convert_thread.pc # "none") =>
    /\ ~ConvertRaised =>
         observed \o pcm_queue \o ConvertHeld \o RepublishedAll(inference_queue)
           = RepublishedAll(sent)
    /\ IsPrefix(WithoutEnd(observed \o pcm_queue), RepublishedAll(WithoutEnd(sent)))
    /\ \A k \in 1..Len(observed) :
         /\ observed[k].kind = "end" => k = Len(observed)
         /\ \A l \in (k + 1)..Len(observed) :
              observed[l].kind # "end" => observed[k].idx <= observed[l].idx
    /\ (observed # <<>> /\ observed[Len(observed)].kind = "end" /\ ~ConvertRaised) =>
         observed = RepublishedAll(sent)

\* The controller has taken End after the seven messages of two chunks, the
\* Audio payloads converted to int16.
C12_Witness ==
  /\ pc = "ov_after_end"
  /\ ~ConvertRaised
  /\ Len(sent) = 7
  /\ observed = RepublishedAll(sent)
  /\ sent[2].payload.dtype = "float32"
  /\ observed[2].payload.dtype = "int16"

\* The queues hold as many messages as queue.Queue(maxsize=...) allows
\* (app.py 1350-1355).
InferenceQueueFull == Len(inference_queue) = Max(2, 2 * args.prefetch_chunks)
PcmQueueFull == Len(pcm_queue) = Max(2, args.pcm_queue_size)

QueuesBounded ==
  /\ Len(inference_queue) <= Max(2, 2 * args.prefetch_chunks)
  /\ Len(pcm_queue) <= Max(2, args.pcm_queue_size)

\* The positions at which a worker is inside queue.put.
InferPuts == {"put_start", "put_audio", "put_done", "put_end"}
ConvertPuts == {"put", "put_end"}

\* C13 as stated: the queues never exceed max(2, 2*prefetch_chunks) and
\* max(2, pcm_queue_size) messages, and while a stage's output queue is
\* full that stage takes no step at all: the inference thread makes no
\* backend step and the conversion thread takes and converts no message.
C13_NoStepWhileFull ==
  /\ []QueuesBounded
  /\ [][/\ (InferenceQueueFull /\ infer_thread'.pc # "none") => infer_thread' = infer_thread
        /\ (PcmQueueFull /\ convert_thread'.pc # "none") => convert_thread' = convert_thread]_vars

\* C13, amended: the queues never exceed max(2, 2*prefetch_chunks) and
\* max(2, pcm_queue_size) messages; a stage that is inside put on a full
\* queue takes no step until a slot is freed; and a stage that is not yet
\* inside put while its queue is full takes the one step that brings it
\* there (the running backend.generate yields, ends or raises; one message
\* is taken and converted), so each stage holds at most one message outside
\* the queues.
C13_BlockedInPutWhenFull ==
  /\ []QueuesBounded
  /\ [][/\ (InferenceQueueFull /\ infer_thread'.pc # "none" /\ infer_thread' # infer_thread)
            => /\ infer_thread.pc \notin InferPuts
               /\ infer_thread'.pc \in InferPuts
               /\ sent' = sent
        /\ (PcmQueueFull /\ convert_thread'.pc # "none" /\ convert_thread' # convert_thread)
            => /\ convert_thread.pc \notin ConvertPuts
               /\ convert_thread'.pc \in ConvertPuts
               /\ pcm_queue' = pcm_queue]_vars

\* Both queues are full, the inference thread is inside put with the Done
\* of the second chunk and the conversion thread is inside put with a
\* message it has taken.
C13_Witness ==
  /\ InferenceQueueFull
  /\ PcmQueueFull
  /\ infer_thread.pc = "put_done"
  /\ convert_thread.pc = "put"
  /\ pc = "ov_check"

\* What a queue of the pipeline may hold: Start, Done and End without a
\* payload, Audio with a buffer.
IsMessage(m) ==
  /\ m.kind \in {"start", "audio", "done", "end"}
  /\ IF m.kind = "audio" THEN "dtype" \in DOMAIN m.payload ELSE m.payload = None

\* The exception each worker puts on the error queue.
ErrorOf(stage) == IF stage = "inference" THEN "backend" ELSE "convert"

\* The controller is inside its loop or at the check after it.
InControllerLoop == pc \in {"ov_check", "ov_get", "ov_after_end"}

\* C14: in an overlapped run the audio queues hold only Start, Audio, Done
\* and End messages, the exceptions only ever go to the error queue; while
\* the controller is in its loop after a worker has raised, that worker's
\* exception is on the error queue, so it is there before the worker's End
\* can be taken; the exception the controller raises is one a worker has
\* raised; and run_inference_overlap3 has never returned normally when a
\* worker has raised.
C14_WorkerErrorNeverMissed ==
  /\ \A k \in 1..Len(inference_queue) : IsMessage(inference_queue[k])
  /\ \A k \in 1..Len(pcm_queue) : IsMessage(pcm_queue[k])
  /\ \A k \in 1..Len(worker_errors) :
       \E stage \in raised : worker_errors[k] = ErrorOf(stage)
  /\ (InControllerLoop /\ raised # {}) =>
       /\ worker_errors # <<>>
       /\ \A stage \in raised :
            \E k \in 1..Len(worker_errors) : worker_errors[k] = ErrorOf(stage)
  /\ (pc = "ov_join" /\ raised # {}) =>
       \E stage \in raised : exc = ErrorOf(stage)
  /\ OverlapReturned => raised = {}

\* The conversion raised while the controller waited; the controller took
\* the End of the conversion thread and then found the exception.
C14_Witness ==
  /\ pc = "ov_join"
  /\ raised = {"conversion"}
  /\ exc = "convert"
  /\ observed # <<>>
  /\ observed[Len(observed)].kind = "end"

\* C16: while the controller of an overlapped run is in its loop, the time
\* since the last heartbeat (or since the start of the phase) never exceeds
\* the heartbeat interval, whatever the queues hold.
C16_HeartbeatEveryInterval ==
  InControllerLoop => since_heartbeat <= HeartbeatInterval

(***************************************************************************)
(* The overlapped runs alone, with the scheduling of the three threads:    *)
(* a thread that can take a step is eventually given the processor, and a  *)
(* backend.generate call in progress eventually yields, ends or raises.    *)
(***************************************************************************)
StartOverlapRun == StartRun /\ args'.pipeline_mode = "overlap3"

InferenceBackendStep == InferYield \/ InferGenerateEnds \/ InferGenerateRaises
InferenceQueueStep == InferPutStart \/ InferPutAudio \/ InferPutDone \/ InferPutEnd
ConversionStep == ConvertGet \/ ConvertRaises \/ ConvertPut \/ ConvertPutEnd
ControllerStep ==
  OvWorkerError \/ OvCheck \/ OvTimeout \/ OvEnd \/ OvStart \/ OvAudio \/ OvDone
  \/ OvLoopExit \/ OvJoin

NextOverlap ==
  StartOverlapRun \/ InitBackend \/ InitBackendFails \/ BeginInference \/ OvSetup
  \/ InferenceBackendStep \/ InferenceQueueStep \/ ConversionStep \/ ControllerStep
  \/ Tick \/ Concatenate \/ Export \/ ExportFails \/ EmitDone \/ Finally \/ Exit

SpecOverlap ==
  /\ Init
  /\ [][NextOverlap]_vars
  /\ WF_vars(InferenceBackendStep)
  /\ WF_vars(InferenceQueueStep)
  /\ WF_vars(ConversionStep)
  /\ WF_vars(ControllerStep)

\* C15: under that scheduling the controller of an overlapped run, once in
\* its loop, eventually leaves run_inference_overlap3, normally or with the
\* exception it raised, in every interleaving; the join of the finally
\* clause does not wait for a worker that is still blocked in put.
C15_ControllerReturns ==
  (pc \in {"ov_check", "ov_get", "ov_after_end", "ov_join"})
    ~> (pc \in {"concat", "finally"})

\* The controller has raised the exception of the conversion and left the
\* function while the inference thread is blocked in put on the full
\* inference queue, which nothing drains any more.
C15_Witness ==
  /\ pc = "finally"
  /\ exc = "convert"
  /\ convert_thread.pc = "finished"
  /\ infer_thread.pc \in InferPuts
  /\ InferenceQueueFull

\* The run was asked for overlap3 with a format or with checkpoint options
\* the overlapped pipeline does not support.
UnsupportedOverlapRequest ==
  /\ args.requested_pipeline_mode = "overlap3"
  /\ (args.config["format"] # "mp3" \/ args.checkpoint \/ args.resume)

\* The threads and queues of the overlapped pipeline have never been used
\* in this run.
PipelineUnused ==
  /\ infer_thread = NoThread
  /\ convert_thread = NoThread
  /\ sent = <<>>
  /\ observed = <<>>

\* C17: the overlapped pipeline is chosen, and its threads exist, only in
\* runs for mp3 without --checkpoint and --resume; a run asked for overlap3
\* otherwise, once its arguments are accepted, has emitted the warning, runs the sequential loop, never
\* touches the pipeline and fails, if at all, for a reason the sequential
\* run has anyway; the warning is emitted in no other run.
C17_OverlapOnlyMp3NoCheckpoint ==
  /\ (args.pipeline_mode = "overlap3" \/ ~PipelineUnused \/ pc \in {"ov_setup", "ov_join"}
      \/ InControllerLoop)
       => (args.config["format"] = "mp3" /\ ~args.checkpoint /\ ~args.resume)
  /\ (UnsupportedOverlapRequest /\ exc \notin ArgumentErrors) =>
       /\ events # <<>>
       /\ events[1] = Event("warning", "overlap3_fallback", -1)
       /\ args.pipeline_mode = "sequential"
       /\ PipelineUnused
       /\ exc \in ExpectedFailures
  /\ HasEvent("warning", "overlap3_fallback") => UnsupportedOverlapRequest

\* A run asked for overlap3 together with --checkpoint has warned, inferred
\* both chunks in the sequential loop, exported and ended without error.
C17_Witness ==
  /\ UnsupportedOverlapRequest
  /\ args.checkpoint
  /\ args.config["format"] = "mp3"
  /\ total_chunks = 2
  /\ LoopFinished
  /\ HasEvent("done", "")
  /\ outcome = "ok"

\* The samples written to the sink, in the order written.
AllSamples == Flatten([k \in 1..Len(sink) |-> sink[k].data])

\* What the backend yielded for the chunks of the list, converted to int16
\* and put end to end in the order of the list: for a deterministic backend
\* a function of the chunk list alone.
BackendSamples == Flatten([i \in 1..total_chunks |-> produced[i - 1].data])

\* Every chunk of the list was inferred in this run.
EveryChunkInferred ==
  \A i \in Indices :
    generate_calls[i] = 1 /\ produced[i] # None /\ produced[i].src = "live"

\* C18: in either mode, when the inference loop of a run that inferred
\* every chunk has ended without error, the sink holds exactly the samples
\* the backend yielded for the chunks, in chunk order, the offset of every
\* chunk is the number of samples of the chunks before it, and
\* cumulative_samples is the number of all samples.  The three results
\* depend on the chunk list and on what the backend yields only, not on the
\* mode, so a sequential and an overlapped run of the same list with a
\* deterministic backend end with identical results.
C18_ModesSameResult ==
  \A mode \in PipelineModes :
    (pc = "concat" /\ args.pipeline_mode = mode /\ EveryChunkInferred) =>
      /\ AllSamples = BackendSamples
      /\ \A i \in Indices : chunk_sample_offsets[i + 1] = SamplesUpTo(i - 1)
      /\ cumulative_samples = SamplesUpTo(total_chunks - 1)

\* An overlapped run has ended its loop with the four samples of two
\* buffers in the sink, the second chunk starting at sample 2.
C18_Witness ==
  /\ pc = "concat"
  /\ args.pipeline_mode = "overlap3"
  /\ EveryChunkInferred
  /\ AllSamples = <<32767, -16383, 32767, -16383>>
  /\ chunk_sample_offsets = <<0, 2>>
  /\ cumulative_samples = 4

\* The int16 audio the backend yielded for chunk i when the chunk was
\* inferred: in this run, or in the run that stored the blob reused by this
\* run.
BackendAudioOf(i) ==
  IF generate_calls[i] = 0 THEN chunk_npy[i].full ELSE produced[i].data

RECURSIVE BackendSamplesBefore(_)
BackendSamplesBefore(i) ==
  IF i <= 0 THEN 0 ELSE Len(BackendAudioOf(i - 1)) + BackendSamplesBefore(i - 1)

\* C19: the blob a run has stored for a chunk it inferred holds exactly
\* the samples that run wrote to the sink for the chunk; and when the loop
\* of a run with --resume has ended, the sink holds for every
\* chunk, reused or inferred, exactly the audio the backend yielded for it,
\* in chunk order, and the offset of every chunk is the number of samples
\* of the chunks before it: with a deterministic backend the sample
\* sequence and the offset table of one uninterrupted run, wherever the
\* earlier run was interrupted.
C19_ResumeSameAsUninterrupted ==
  /\ \A i \in Indices :
       (/\ use_checkpoint /\ args.pipeline_mode = "sequential"
        /\ generate_calls[i] = 1 /\ i \in completed_chunks
        /\ load_chunk_audio(chunk_npy[i]) # None)
         => chunk_npy[i].data = SamplesOf(i)
  /\ (args.resume /\ pc = "concat") =>
       /\ InOrder
       /\ \A i \in Indices :
            /\ generate_calls[i] = 0 => (Accepted /\ load_chunk_audio(chunk_npy[i]) # None)
            /\ SamplesOf(i) = BackendAudioOf(i)
            /\ chunk_sample_offsets[i + 1] = BackendSamplesBefore(i)

\* A run was terminated after it had stored the first chunk; the resumed
\* run has reused that blob, inferred the second chunk and ended its loop
\* with both chunks' samples in the sink.
C19_Witness ==
  /\ Accepted
  /\ pc = "concat"
  /\ total_chunks = 2
  /\ generate_calls[0] = 0
  /\ generate_calls[1] = 1
  /\ AllSamples = <<32767, -16383, 32767, -16383>>
  /\ chunk_sample_offsets = <<0, 2>>
  /\ chunk_npy[1].data = SamplesOf(1)

\* The inference thread has been started and has not ended.
InferenceThreadAlive == infer_thread.pc \notin {"none", "finished"}

\* A step of one of the two worker threads.
WorkerThreadStep ==
  /\ infer_thread.pc # "none" /\ infer_thread'.pc # "none"
  /\ infer_thread' # infer_thread \/ convert_thread' # convert_thread

\* C20: in an overlapped run, up to the end of the process, a step of a
\* worker thread leaves the sink, the offset table, cumulative_samples and
\* the controller's other results as they are, and the main thread does not
\* use the backend (backend.cleanup() in the finally clause of main) while
\* the inference thread, which calls backend.generate, is alive.
C20_StateConfinedToOneThread ==
  /\ [][WorkerThreadStep =>
          UNCHANGED <<sink, chunk_sample_offsets, cumulative_samples, chunk_started,
                      processed_count, events, observed, pc, exc>>]_vars
  /\ [](InferenceThreadAlive => backend # "cleaned")

(***************************************************************************)
(* Errors, teardown and the order of events.                               *)
(***************************************************************************)
\* The current run was given --prefetch_chunks or --pcm_queue_size below 1
\* with an input that exists.
InvalidSizes ==
  /\ args.input \in Inputs
  /\ args.prefetch_chunks < 1 \/ args.pcm_queue_size < 1

\* C21: a run given prefetch_chunks < 1 or pcm_queue_size < 1, in either
\* pipeline mode, goes from its start straight to the error exit, with the
\* error of the first failing check: nothing is parsed, no backend exists,
\* the checkpoint directory is neither read nor written (no step of the run
\* changes it), the sink is not opened and nothing is written to it.
C21_InvalidSizesFailBeforeWork ==
  /\ [](InvalidSizes =>
          /\ pc \in {"exit", "idle"}
          /\ exc = (IF args.prefetch_chunks < 1 THEN "prefetch_chunks"
                    ELSE "pcm_queue_size")
          /\ pc = "idle" => outcome = "error" /\ HasEvent("error", exc)
          /\ chunks = <<>>
          /\ ~HasEvent("phase", "PARSING")
          /\ backend = "none"
          /\ \A i \in ChunkIds : generate_calls[i] = 0
          /\ found = NothingFound /\ verified = <<>>
          /\ checkpoint_state = None /\ saving = None
          /\ sink = <<>>
          /\ infer_thread = NoThread /\ convert_thread = NoThread)
  /\ [][InvalidSizes' /\ external' = external => UNCHANGED disk]_vars

\* A run asked for overlap3 with --resume and pcm_queue_size 0, started on
\* a directory that holds a manifest, has ended with the error.
C21_Witness ==
  /\ InvalidSizes
  /\ args.pcm_queue_size < 1
  /\ args.prefetch_chunks >= 1
  /\ args.requested_pipeline_mode = "overlap3"
  /\ args.resume
  /\ load_checkpoint(state_json) # None
  /\ pc = "idle"
  /\ outcome = "error"

\* The number of error events emitted in the current run.
ErrorEvents == Cardinality({k \in 1..Len(events) : events[k].type = "error"})

\* C22: once an exception is raised in main (missing input, invalid size,
\* no chunks, backend, worker, sink or encoder error) the run only proceeds
\* through the teardown to the handler, keeping the exception; no error
\* event is emitted before the handler; the process ends with exactly one
\* error event, the last event of the run, carrying that exception, and
\* with the exception propagated (outcome "error").  A run without an
\* exception emits no error event and does not end with outcome "error".
C22_OneErrorEventPerFatalError ==
  /\ [](/\ ErrorEvents <= 1
        /\ (exc # "" /\ pc # "idle") =>
             ErrorEvents = 0 /\ pc \in {"ov_join", "finally", "exit"}
        /\ (exc # "" /\ pc = "idle") =>
             /\ outcome = "error"
             /\ ErrorEvents = 1
             /\ events[Len(events)] = Event("error", exc, -1)
        /\ exc = "" => ErrorEvents = 0 /\ outcome # "error")
  /\ [][(exc # "" /\ pc # "idle" /\ outcome' # "killed") =>
          exc' = exc /\ pc' \in {pc, "finally", "exit", "idle"}]_vars

\* An overlapped run in which the conversion raised has ended with the one
\* error event, after chunk events of the run.
C22_Witness ==
  /\ pc = "idle"
  /\ outcome = "error"
  /\ exc = "convert"
  /\ ErrorEvents = 1
  /\ Len(events) > 3

\* The resources of the run have been released: the backend, if one was
\* created, is cleaned up, no encoder is running and no spool file is left.
TornDown ==
  /\ backend \in {"none", "cleaned"}
  /\ mp3_export_proc # "running"
  /\ spool_path # "exists"

\* main has left its inner try statement, by return or by exception.
LeftInnerTry == pc = "exit" \/ (pc = "idle" /\ outcome \in {"ok", "error"})

\* C23: when main leaves the inner try statement, on success and on every
\* error after the backend object was created, backend.cleanup() has been
\* called, the streaming encoder is no longer running and the spool file is
\* removed; an error event is emitted only after that; and the step of the
\* finally clause changes neither the manifest nor a chunk file.
C23_TeardownOnEveryExit ==
  /\ [](LeftInnerTry => TornDown)
  /\ [](ErrorEvents > 0 => TornDown)
  /\ [][(pc = "finally" /\ pc' = "exit") =>
          /\ UNCHANGED <<disk, cleanup_begun>>
          /\ backend # "none" => backend' = "cleaned"]_vars

\* A checkpointed run whose export failed has ended: the backend is cleaned
\* up, the spool file is removed, and the manifest with both chunks and
\* their files are still on disk.
C23_Witness ==
  /\ pc = "idle"
  /\ outcome = "error"
  /\ exc = "ffmpeg_failed"
  /\ args.checkpoint
  /\ backend = "cleaned"
  /\ spool_path = "removed"
  /\ load_checkpoint(state_json) # None
  /\ SetOf(state_json.completed_chunks) = {0, 1}
  /\ \A i \in {0, 1} : load_chunk_audio(chunk_npy[i]) # None

\* The positions of an event in the events of the run.
PositionsOf(e) == {k \in 1..Len(events) : events[k] = e}

PhaseNames == <<"PARSING", "INFERENCE", "CONCATENATING", "EXPORTING">>

PhasePositions(p) == PositionsOf(Event("phase", p, -1))

\* Events about one chunk or emitted from within the inference loop.
ChunkLevel(e) ==
  \/ e.type \in {"worker", "timing", "progress", "heartbeat"}
  \/ e.type = "checkpoint" /\ e.code \in {"REUSED", "MISSING_AUDIO", "SAVED"}

DonePositions == {k \in 1..Len(events) : events[k].type = "done"}

Before(K, L) == \E k \in K : \A l \in L : k < l

\* C24: in every run each phase event is emitted at most once and only
\* after the phase before it; every chunk-level event comes after INFERENCE
\* and before CONCATENATING; a done event is emitted at most once, as the
\* last event, without an exception, after EXPORTING with the export
\* returned and, with checkpointing, after CLEANED; and a run that has ended
\* successfully has emitted each of the four phases and done exactly once.
C24_PhaseOrder ==
  /\ \A i \in 1..4 : Cardinality(PhasePositions(PhaseNames[i])) <= 1
  /\ \A i \in 2..4 :
       PhasePositions(PhaseNames[i]) # {} =>
         /\ PhasePositions(PhaseNames[i - 1]) # {}
         /\ Before(PhasePositions(PhaseNames[i - 1]), PhasePositions(PhaseNames[i]))
  /\ \A k \in 1..Len(events) :
       ChunkLevel(events[k]) =>
         /\ \E j \in PhasePositions("INFERENCE") : j < k
         /\ \A j \in PhasePositions("CONCATENATING") : k < j
  /\ DonePositions \subseteq {Len(events)}
  /\ DonePositions # {} =>
       /\ exc = "" /\ exported
       /\ \E j \in PhasePositions("EXPORTING") : j < Len(events)
       /\ use_checkpoint =>
            \E j \in PositionsOf(Event("checkpoint", "CLEANED", -1)) :
              /\ j < Len(events)
              /\ \A l \in PhasePositions("EXPORTING") : l < j
  /\ (pc = "idle" /\ outcome = "ok") =>
       /\ \A i \in 1..4 : Cardinality(PhasePositions(PhaseNames[i])) = 1
       /\ Cardinality(DonePositions) = 1

\* A run with --resume has reused a chunk, inferred another, exported,
\* removed the checkpoint and ended successfully.
C24_Witness ==
  /\ pc = "idle"
  /\ outcome = "ok"
  /\ args.resume
  /\ \E i \in Indices : HasChunkEvent("checkpoint", "REUSED", i)
  /\ \E i \in Indices : HasChunkEvent("checkpoint", "SAVED", i)
  /\ HasEvent("checkpoint", "CLEANED")

\* The current run has checkpoints and its export has raised.
ExportFailed ==
  /\ use_checkpoint
  /\ exc \in {"ffmpeg_not_found", "ffmpeg_failed"}
  /\ HasEvent("phase", "EXPORTING")

\* The manifest on disk lists every chunk of the run and every chunk file
\* loads.
CheckpointComplete ==
  /\ load_checkpoint(state_json) # None
  /\ state_json.total_chunks = total_chunks
  /\ SetOf(state_json.completed_chunks) = Indices
  /\ \A i \in Indices : load_chunk_audio(chunk_npy[i]) # None

\* The current run resumes, with the same input and configuration, right
\* after a run whose export failed; nothing but the runs has changed the
\* directory.
ResumesAfterFailedExport ==
  args.resume /\ found.after_failed_export /\ external = 0

\* C25: a run with checkpoints whose export raises leaves the manifest with
\* every chunk completed and every chunk file loadable; the run with
\* --resume that follows it with the same input and configuration adopts
\* the whole set, never calls the backend, has reused every chunk by the
\* end of the loop, fails, if at all, for the backend's creation or the
\* encoder, and when it ends successfully has exported and removed the
\* directory; and no run with checkpoints has a streaming encoder, its
\* writes go to the spool file.
C25_ResumeAfterFailedExport ==
  /\ (ExportFailed /\ (pc # "idle" \/ external = 0)) => CheckpointComplete
  /\ ResumesAfterFailedExport =>
       /\ HasEvent("checkpoint", "RESUMING")
       /\ SetOf(found.state_json.completed_chunks) = Indices
       /\ \A i \in ChunkIds : generate_calls[i] = 0
       /\ LoopFinished => \A i \in Indices : Reused(i)
       /\ exc \in {"", "backend_init", "ffmpeg_not_found", "ffmpeg_failed"}
       /\ (pc = "idle" /\ outcome = "ok") =>
            /\ exported
            /\ HasEvent("checkpoint", "CLEANED")
            /\ DirectoryAbsent
  /\ (use_checkpoint /\ pc # "idle") =>
       /\ mp3_export_proc = "none"
       /\ sink # <<>> => spool_path # "none"

\* The run with --resume after a failed export of an mp3 has ended
\* successfully.
C25_Witness ==
  /\ ResumesAfterFailedExport
  /\ args.config["format"] = "mp3"
  /\ total_chunks = 2
  /\ pc = "idle"
  /\ outcome = "ok"

\* The manifest's completed list lies in [0, total_chunks) of the manifest
\* itself, and that total is the chunk count of the current run.
ManifestInRange(state) ==
  /\ state.total_chunks = total_chunks
  /\ \A i \in SetOf(state.completed_chunks) : 0 <= i /\ i < state.total_chunks

\* C27: in every state of a run with checkpoints the completed set in
\* memory is a subset of [0, total_chunks); the manifest held in memory, the
\* manifest handed to a save in progress and every manifest a step of the
\* run writes to state.json have the run's chunk count as total_chunks and
\* a completed list within [0, total_chunks).
C27_CompletedWithinTotal ==
  /\ [](use_checkpoint =>
          /\ \A i \in completed_chunks : 0 <= i /\ i < total_chunks
          /\ checkpoint_state # None => ManifestInRange(checkpoint_state)
          /\ (saving # None /\ pc # "idle") => ManifestInRange(saving.new))
  /\ [][(state_json' # state_json /\ external' = external
          /\ state_json' \notin {NoFile, Truncated})
        => (use_checkpoint /\ ManifestInRange(state_json'))]_vars

\* A run that adopted a stored completed set has added an index to it and
\* is writing the manifest with both.
C27_Witness ==
  /\ Accepted
  /\ found.state_json.completed_chunks = <<0>>
  /\ completed_chunks = {0, 1}
  /\ pc = "save_dump"
  /\ saving # None
  /\ saving.new.completed_chunks = <<0, 1>>

(***************************************************************************)
(* verify_checkpoint as a function of the stored manifest, the input and   *)
(* the configuration (checkpoint.py 106-139).                              *)
(***************************************************************************)
\* The configuration of the unit tests of verify_checkpoint, which has five
\* of the options (tests/unit/test_checkpoint_resume.py 24-30).
TestConfig ==
  [k \in {"voice", "speed", "lang_code", "backend", "chunk_chars"} |->
     OptionValues(k)[1]]

\* What state.json may hold when verify_checkpoint is called.
StoredManifests ==
  {NoFile, Truncated}
  \cup {CheckpointState(compute_epub_hash(e), c, 2, <<0>>, <<>>) :
          e \in Inputs, c \in {BaseConfig, TestConfig}}

InitVerify ==
  /\ state_json \in StoredManifests
  /\ \E e \in Inputs, c \in {BaseConfig, TestConfig} :
       args = [NoArgs EXCEPT !.input = e, !.config = c]
  /\ chapters = <<>>
  /\ verified = <<>>
  /\ chunk_npy = [i \in ChunkIds |-> NoFile]
  /\ InitRest

VerifyFrame ==
  UNCHANGED <<ov, disk, external, cleanup_begun, run, pc, ret, outcome, exc, chapters, chunks,
              chapter_start_indices, completed_chunks, checkpoint_state,
              chunk_sample_offsets, cumulative_samples, idx, processed_count,
              checkpoint_parts, sink, chapter_infos, events, exported, yielded,
              generate_calls, saving, found, produced, cum_at_done>>

\* The current configuration differs in one option from what it was.
ChangeOption ==
  /\ \E key \in DOMAIN args.config :
       args' = [args EXCEPT !.config[key] = OtherValue(key, @)]
  /\ verified' = <<>>
  /\ VerifyFrame

\* The current input is another file.
ChangeInput ==
  /\ \E e \in Inputs \ {args.input} : args' = [args EXCEPT !.input = e]
  /\ verified' = <<>>
  /\ VerifyFrame

\* verify_checkpoint(checkpoint_dir, args.input, config_for_verify).
VerifyCall ==
  /\ verified = <<>>
  /\ verified' = <<verify_checkpoint(state_json, args.input, args.config)>>
  /\ UNCHANGED args
  /\ VerifyFrame

NextVerify == ChangeOption \/ ChangeInput \/ VerifyCall

SpecVerify == InitVerify /\ [][NextVerify]_vars

(***************************************************************************)
(* load_checkpoint as a function of the content of state.json              *)
(* (checkpoint.py 59-69).                                                  *)
(***************************************************************************)
\* Manifests as save_checkpoint writes them.
WrittenManifests ==
  {CheckpointState(compute_epub_hash(e), c, 2, completed, <<>>) :
     e \in Inputs, c \in {BaseConfig, TestConfig}, completed \in {<<>>, <<0>>, <<0, 1>>}}

\* A JSON object without one of its fields.
Without(manifest, field) == [f \in (DOMAIN manifest) \ {field} |-> manifest[f]]

\* What the path of state.json may hold when load_checkpoint is called:
\* nothing (no directory or no file), text cut short, bytes that are not
\* text, a manifest, a manifest lacking a field.
ManifestFiles ==
  {NoFile, Truncated, Undecodable}
  \cup WrittenManifests
  \cup {Without(m, f) : m \in WrittenManifests, f \in RequiredFields}

InitLoad ==
  /\ state_json \in ManifestFiles
  /\ args = NoArgs
  /\ chapters = <<>>
  /\ verified = <<>>
  /\ chunk_npy = [i \in ChunkIds |-> NoFile]
  /\ InitRest

\* state = load_checkpoint(checkpoint_dir); the exception, if one leaves
\* the call, is kept in exc.
LoadCall ==
  /\ pc = "idle"
  /\ pc' = "loaded"
  /\ checkpoint_state' = LoadCheckpointCall(state_json).value
  /\ exc' = LoadCheckpointCall(state_json).raised
  /\ UNCHANGED <<ov, disk, external, cleanup_begun, run, ret, outcome, args, chapters, chunks,
                 chapter_start_indices, completed_chunks, chunk_sample_offsets,
                 cumulative_samples, idx, processed_count, checkpoint_parts, sink,
                 chapter_infos, events, exported, yielded, generate_calls, saving, found,
                 verified, produced, cum_at_done>>

NextLoad == LoadCall

SpecLoad == InitLoad /\ [][NextLoad]_vars

\* The file is not a JSON document.
NotValidJson(file) == file \in {Truncated, Undecodable}

\* The file is a JSON object without one of the fields of a manifest.
LacksField(file) ==
  /\ file \notin {NoFile, Truncated, Undecodable}
  /\ \E f \in RequiredFields : f \notin DOMAIN file

\* C26: load_checkpoint returns None, and no exception leaves it, when the
\* directory or state.json does not exist, when state.json is not valid
\* JSON and when it lacks a required field; the call changes nothing on
\* disk.
C26_LoadAbsentOrCorruptIsNone ==
  /\ []((pc = "loaded"
         /\ (state_json = NoFile \/ NotValidJson(state_json) \/ LacksField(state_json)))
        => (exc = "" /\ checkpoint_state = None))
  /\ [][pc' = "loaded" => UNCHANGED disk]_vars

NineKeys == {"voice", "speed", "lang_code", "backend", "chunk_chars",
             "split_pattern", "format", "bitrate", "normalize"}

\* The manifest loads, its fingerprint is that of the current input, and
\* the stored and the current value of each of the nine keys are equal.
Matches(file, epub, config) ==
  /\ load_checkpoint(file) # None
  /\ file.epub_hash = compute_epub_hash(epub)
  /\ \A key \in NineKeys : Get(file.config, key) = Get(config, key)

\* C6: verify_checkpoint returns true exactly when a manifest loads, its
\* fingerprint equals that of the current input and the stored and current
\* values of voice, speed, lang_code, backend, chunk_chars, split_pattern,
\* format, bitrate and normalize are equal; and from a state where it
\* returns true, a change of the value of a single one of these keys makes
\* it return false.
C6_VerifyIffAllMatch ==
  /\ [](verified # <<>> =>
          (verified[1] <=> Matches(state_json, args.input, args.config)))
  /\ [][(args'.config # args.config
           /\ verify_checkpoint(state_json, args.input, args.config))
        => ~verify_checkpoint(state_json, args'.input, args'.config)]_vars

\* verify_checkpoint has returned false for a configuration that differs
\* from the stored one in normalize only.
C6_Witness ==
  /\ verified = <<FALSE>>
  /\ load_checkpoint(state_json) # None
  /\ state_json.epub_hash = compute_epub_hash(args.input)
  /\ state_json.config = BaseConfig
  /\ {key \in NineKeys : Get(state_json.config, key) # Get(args.config, key)}
       = {"normalize"}

(***************************************************************************)
(* The chapter spans as a function of the chunk lengths and the chapter    *)
(* table (app.py 1489-1518).                                               *)
(***************************************************************************)
MaxSamples == 2

\* Chapter lists given to the chunker: the two books, and one whose first
\* chapter makes two chunks at the smaller chunk size.
ChapterLists ==
  {Books[e].chapters : e \in Inputs}
  \cup {<< <<"A", <<"a", ".", " ", "a">> >>, <<"B", <<"b">> >> >>}

InitChapters ==
  /\ \E list \in ChapterLists, chunk_chars \in {3, 6} :
       LET split == split_text_to_chunks(list, chunk_chars) IN
         /\ chapters = list
         /\ chunks = split.chunks
         /\ chapter_start_indices = split.chapter_start_indices
         /\ chunk_sample_offsets = [i \in 1..Len(split.chunks) |-> 0]
  /\ args = [NoArgs EXCEPT !.config["format"] = "m4b"]
  /\ pc = "account"
  /\ chunk_npy = [i \in ChunkIds |-> NoFile]
  /\ state_json = NoFile
  /\ external = 0
  /\ cleanup_begun = FALSE
  /\ run = 0
  /\ ret = "idle"
  /\ outcome = "running"
  /\ exc = ""
  /\ completed_chunks = {}
  /\ checkpoint_state = None
  /\ cumulative_samples = 0
  /\ idx = 0
  /\ processed_count = 0
  /\ checkpoint_parts = None
  /\ sink = <<>>
  /\ chapter_infos = <<>>
  /\ events = <<>>
  /\ exported = FALSE
  /\ yielded = <<>>
  /\ generate_calls = [i \in ChunkIds |-> 0]
  /\ saving = None
  /\ found = NothingFound
  /\ verified = <<>>
  /\ produced = [i \in ChunkIds |-> None]
  /\ cum_at_done = <<>>
  /\ inference_queue = <<>>
  /\ pcm_queue = <<>>
  /\ worker_errors = <<>>
  /\ infer_thread = NoThread
  /\ convert_thread = NoThread
  /\ chunk_started = <<>>
  /\ sent = <<>>
  /\ raised = {}
  /\ observed = <<>>
  /\ since_heartbeat = 0
  /\ ticked = FALSE
  /\ backend = "none"
  /\ mp3_export_proc = "none"
  /\ spool_path = "none"

\* One pass of the inference loop reduced to its accounting: the offset of
\* the chunk is recorded and the chunk's samples, of any length, are
\* counted (app.py 1237, 1255, 1306).
AccountChunk ==
  /\ pc = "account"
  /\ idx < total_chunks
  /\ \E length \in 0..MaxSamples :
       cumulative_samples' = cumulative_samples + length
  /\ chunk_sample_offsets' = [chunk_sample_offsets EXCEPT ![idx + 1] = cumulative_samples]
  /\ idx' = idx + 1
  /\ UNCHANGED <<ov, disk, external, cleanup_begun, run, pc, ret, outcome, exc, args,
                 chapters, chunks, chapter_start_indices, completed_chunks, checkpoint_state,
                 processed_count, checkpoint_parts, sink, chapter_infos, events,
                 exported, yielded, generate_calls, saving, found, verified, produced,
                 cum_at_done>>

\* The loop has passed every chunk.
AccountEnds ==
  /\ pc = "account"
  /\ idx = total_chunks
  /\ pc' = "concat"
  /\ UNCHANGED <<ov, disk, external, cleanup_begun, run, ret, outcome, exc, mem, saving>>

NextChapters == AccountChunk \/ AccountEnds \/ Concatenate

SpecChapters == InitChapters /\ [][NextChapters]_vars

\* C10: the chapter spans derived from the offsets: one per entry of the
\* chapter table, the first starting at 0, each ending where the next
\* starts, the last ending at the total sample count, none ending before
\* it starts.
C10_ChapterSpansContiguous ==
  pc = "export" =>
    /\ Len(chapter_infos) = Len(chapter_start_indices)
    /\ chapter_infos # <<>> =>
         /\ chapter_infos[1].start_sample = 0
         /\ chapter_infos[Len(chapter_infos)].end_sample = cumulative_samples
    /\ \A i \in 1..(Len(chapter_infos) - 1) :
         chapter_infos[i].end_sample = chapter_infos[i + 1].start_sample
    /\ \A i \in 1..Len(chapter_infos) :
         chapter_infos[i].start_sample <= chapter_infos[i].end_sample

\* Two chapters over three chunks, the first chapter of two chunks one of
\* which has no samples, the second chapter without samples.
C10_Witness ==
  /\ pc = "export"
  /\ total_chunks = 3
  /\ Len(chapter_infos) = 2
  /\ chapter_start_indices[2][1] = 2
  /\ chunk_sample_offsets = <<0, 0, 2>>
  /\ cumulative_samples = 2
  /\ chapter_infos[2].start_sample = chapter_infos[2].end_sample

(***************************************************************************)
(* split_text_to_chunks as a function of the chapter list and chunk_chars  *)
(* (app.py 308-377).                                                       *)
(***************************************************************************)
MaxTextLen == 5       \* characters of the text of a single chapter
MaxPairTextLen == 2   \* characters of each text of a list of two chapters
MaxChunkChars == 3    \* chunk_chars is 1..MaxChunkChars

Alphabet == {"a", "b", ".", " ", "\n"}

TextsUpTo(n) == UNION {[1..k -> Alphabet] : k \in 0..n}

\* The chapter lists given to split_text_to_chunks: none, one chapter, two
\* chapters.
SplitInputs ==
  {<<>>}
  \cup {<< <<"A", t>> >> : t \in TextsUpTo(MaxTextLen)}
  \cup {<< <<"A", t>>, <<"B", u>> >> : t, u \in TextsUpTo(MaxPairTextLen)}

InitSplit ==
  /\ chapters \in SplitInputs
  /\ \E chunk_chars \in 1..MaxChunkChars :
       args = [NoArgs EXCEPT !.config["chunk_chars"] = chunk_chars]
  /\ state_json = NoFile
  /\ verified = <<>>
  /\ chunk_npy = [i \in ChunkIds |-> NoFile]
  /\ InitRest

\* chunks, chapter_start_indices = split_text_to_chunks(chapters, chunk_chars)
SplitCall ==
  /\ pc = "idle"
  /\ pc' = "split"
  /\ LET split == split_text_to_chunks(chapters, args.config["chunk_chars"]) IN
       /\ chunks' = split.chunks
       /\ chapter_start_indices' = split.chapter_start_indices
  /\ UNCHANGED <<ov, disk, external, cleanup_begun, run, ret, outcome, exc, args, chapters,
                 completed_chunks, checkpoint_state, chunk_sample_offsets,
                 cumulative_samples, idx, processed_count, checkpoint_parts, sink,
                 chapter_infos, events, exported, yielded, generate_calls, saving, found,
                 verified, produced, cum_at_done>>

NextSplit == SplitCall

SpecSplit == InitSplit /\ [][NextSplit]_vars

\* The sentences of the chapters' paragraphs, as split_oversized_paragraph
\* takes them.
RECURSIVE SentencesOf(_)
SentencesOf(paragraphs) ==
  IF paragraphs = <<>> THEN <<>>
  ELSE SplitSentences(Head(paragraphs), 1, <<>>) \o SentencesOf(Tail(paragraphs))

\* Some chapter has a single sentence longer than chunk_chars.
HasLongSentence ==
  \E c \in 1..Len(chapters) :
    LET sentences == SentencesOf(Paragraphs(chapters[c][2])) IN
      \E k \in 1..Len(sentences) : Len(strip(sentences[k])) > args.config["chunk_chars"]

RECURSIVE NonBlankTitles(_)
NonBlankTitles(list) ==
  IF list = <<>> THEN <<>>
  ELSE (IF strip(Head(list)[2]) # <<>> THEN <<Head(list)[1]>> ELSE <<>>)
       \o NonBlankTitles(Tail(list))

\* C29: the chunk indices of chapter_start_indices are strictly increasing
\* and each is in [0, len(chunks)); the entries are, in order, the chapters
\* whose text is not empty after stripping whitespace; the first entry has
\* index 0; the empty chapter list gives no chunks and no entries.
C29_ChapterStartsWellFormed ==
  pc = "split" =>
    /\ \A i, j \in 1..Len(chapter_start_indices) :
         i < j => chapter_start_indices[i][1] < chapter_start_indices[j][1]
    /\ \A i \in 1..Len(chapter_start_indices) :
         chapter_start_indices[i][1] \in 0..(Len(chunks) - 1)
    /\ [i \in 1..Len(chapter_start_indices) |-> chapter_start_indices[i][2]]
         = NonBlankTitles(chapters)
    /\ (chapter_start_indices # <<>> => chapter_start_indices[1][1] = 0)
    /\ (chapters = <<>> => chunks = <<>> /\ chapter_start_indices = <<>>)

\* Two chapters with text: the second starts at the chunk after the two
\* chunks of the first.
C29_Witness ==
  /\ pc = "split"
  /\ args.config["chunk_chars"] = 1
  /\ chapters = << <<"A", <<"a", "b">> >>, <<"B", <<"b">> >> >>
  /\ chapter_start_indices = << <<0, "A">>, <<2, "B">> >>

\* The characters of a text that are not whitespace, in order.
NoWhitespace(text) == SelectSeq(text, LAMBDA ch : ch \notin WS)

ChunkTexts == Flatten([i \in 1..Len(chunks) |-> chunks[i].text])

ChapterTexts == Flatten([i \in 1..Len(chapters) |-> chapters[i][2]])

\* C30: the texts of the chunks, concatenated in order and without
\* whitespace, are the texts of the chapters, concatenated in order and
\* without whitespace; a body of 2n characters without whitespace split at
\* chunk_chars = n gives exactly two chunks (n = 2 here, 1000 in the
\* scenario).
C30_LosslessModuloWhitespace ==
  pc = "split" =>
    /\ NoWhitespace(ChunkTexts) = NoWhitespace(ChapterTexts)
    /\ (/\ Len(chapters) = 1
        /\ args.config["chunk_chars"] = 2
        /\ Len(chapters[1][2]) = 4
        /\ \A k \in 1..4 : chapters[1][2][k] \notin WS \cup Punct
        => /\ Len(chunks) = 2
           /\ chunks[1].text \o chunks[2].text = chapters[1][2])

\* Text with a sentence end, a paragraph break and a joined buffer: the
\* whitespace is gone or replaced, the letters and the full stop are kept.
C30_Witness ==
  /\ pc = "split"
  /\ args.config["chunk_chars"] = 3
  /\ chapters = << <<"A", <<"a", ".", " ", "b", "\n">> >> >>
  /\ Len(chunks) = 2
  /\ NoWhitespace(ChunkTexts) = <<"a", ".", "b">>

\* The texts of the chapters whose text is not empty after stripping, in
\* order.
RECURSIVE NonBlankTexts(_)
NonBlankTexts(list) ==
  IF list = <<>> THEN <<>>
  ELSE (IF strip(Head(list)[2]) # <<>> THEN <<Head(list)[2]>> ELSE <<>>)
       \o NonBlankTexts(Tail(list))

\* The chunk indices (from 0) of the k-th entry of chapter_start_indices: up
\* to the next entry, or to the last chunk.
SpanOf(k) ==
  chapter_start_indices[k][1] ..
    (IF k < Len(chapter_start_indices)
     THEN chapter_start_indices[k + 1][1] - 1
     ELSE Len(chunks) - 1)

\* The texts of the chunks lo..hi (from 0), concatenated.
RECURSIVE SpanText(_, _)
SpanText(lo, hi) ==
  IF lo > hi THEN <<>> ELSE chunks[lo + 1].text \o SpanText(lo + 1, hi)

\* C31: no chunk spans two chapters: the chunks from one entry of
\* chapter_start_indices up to the next (or to the end) all carry the title
\* of that entry, and their text is, whitespace aside, the text of the
\* chapter of that entry and nothing else.
C31_NoChunkSpansChapters ==
  pc = "split" =>
    \A k \in 1..Len(chapter_start_indices) :
      /\ \A i \in SpanOf(k) : chunks[i + 1].chapter_title = chapter_start_indices[k][2]
      /\ k <= Len(NonBlankTexts(chapters))
      /\ NoWhitespace(SpanText(chapter_start_indices[k][1],
                               IF k < Len(chapter_start_indices)
                               THEN chapter_start_indices[k + 1][1] - 1
                               ELSE Len(chunks) - 1))
           = NoWhitespace(NonBlankTexts(chapters)[k])

\* Two chapters short enough to share a chunk of three characters, kept in
\* a chunk each.
C31_Witness ==
  /\ pc = "split"
  /\ args.config["chunk_chars"] = 3
  /\ chapters = << <<"A", <<"a">> >>, <<"B", <<"b">> >> >>
  /\ chunks = <<TextChunk("A", <<"a">>), TextChunk("B", <<"b">>)>>
  /\ chapter_start_indices = << <<0, "A">>, <<1, "B">> >>

(***************************************************************************)
(* Memory, reporting and reuse in the runs of main.                        *)
(***************************************************************************)
\* The control is inside the for loop of run_inference_sequential.
InSequentialLoop ==
  \/ pc \in {"seq_top", "seq_missing", "seq_gen", "blob_open", "blob_write", "seq_end"}
  \/ pc \in {"save_open", "save_dump"} /\ ret \in {"seq_missing", "seq_end"}

\* The buffers the accumulator of the checkpoint save refers to.
Accumulated == IF checkpoint_parts = None THEN <<>> ELSE checkpoint_parts.items

\* The blob of the chunk whose buffers were accumulated last has been
\* written, or no chunk is being inferred.
BetweenInferences ==
  \/ pc \in {"seq_top", "seq_missing", "seq_end"}
  \/ pc \in {"save_open", "save_dump"} /\ ret \in {"seq_missing", "seq_end"}

\* C32: inside the loop of the sequential mode the accumulator of the
\* checkpoint save is empty when the inference of a chunk starts, holds the
\* converted buffers of that chunk and no others while the chunk is inferred
\* and saved, and refers to no buffer once the blob of the chunk has been
\* written; without checkpointing there is no accumulator.
C32_AccumulatorHoldsOneChunk ==
  InSequentialLoop =>
    /\ (pc = "seq_gen" /\ yielded = <<>> => Accumulated = <<>>)
    /\ (pc \in {"seq_gen", "blob_open", "blob_write"} =>
          Accumulated = IF use_checkpoint THEN ConvertAll(yielded) ELSE <<>>)
    /\ (BetweenInferences => Accumulated = <<>>)
    /\ (~use_checkpoint => checkpoint_parts = None)

(***************************************************************************)
(* main() with --check_checkpoint (app.py 999-1020) on a checkpoint         *)
(* directory in any condition.                                             *)
(***************************************************************************)
\* A chunk file as save_chunk_audio leaves it.
SomeBlob ==
  Blob(concatenate(ConvertAll(<<CHOOSE a \in AudioBuffers : TRUE>>)),
       concatenate(ConvertAll(<<CHOOSE a \in AudioBuffers : TRUE>>)))

InitCheck ==
  /\ state_json \in ManifestFiles
  /\ args = NoArgs
  /\ chunk_npy \in {[i \in ChunkIds |-> NoFile],
                    [i \in ChunkIds |-> IF i = 0 THEN SomeBlob ELSE NoFile]}
  /\ chapters = <<>>
  /\ verified = <<>>
  /\ InitRest

\* events.emit("checkpoint", code="FOUND", detail=f"{total}:{completed}")
FoundEvent(total, completed) ==
  [type |-> "checkpoint", code |-> "FOUND", idx |-> -1, detail |-> <<total, completed>>]

\* The report of the check mode for what load_checkpoint returned.
CheckReport(state, input) ==
  IF state = None THEN Event("checkpoint", "NONE", -1)
  ELSE IF state.epub_hash # compute_epub_hash(input)
  THEN Event("checkpoint", "INVALID:hash_mismatch", -1)
  ELSE FoundEvent(state.total_chunks, Len(state.completed_chunks))

\* main() with --check_checkpoint and accepted arguments: load_checkpoint,
\* one event, return; an exception leaving load_checkpoint goes to the
\* handler of main (app.py 965-979, 999-1020).
CheckCheckpoint ==
  /\ pc = "idle"
  /\ run < MaxRuns
  /\ \E input \in Inputs :
       LET call == LoadCheckpointCall(state_json) IN
         /\ args' = [NoArgs EXCEPT !.input = input, !.pipeline_mode = ""]
         /\ exc' = call.raised
         /\ events' = IF call.raised # "" THEN <<>>
                      ELSE <<CheckReport(call.value, input)>>
  /\ run' = run + 1
  /\ pc' = "exit"
  /\ ret' = "idle"
  /\ outcome' = "running"
  /\ chapters' = <<>>
  /\ chunks' = <<>>
  /\ chapter_start_indices' = <<>>
  /\ completed_chunks' = {}
  /\ checkpoint_state' = None
  /\ chunk_sample_offsets' = <<>>
  /\ cumulative_samples' = 0
  /\ idx' = 0
  /\ processed_count' = 0
  /\ checkpoint_parts' = None
  /\ sink' = <<>>
  /\ chapter_infos' = <<>>
  /\ exported' = FALSE
  /\ yielded' = <<>>
  /\ generate_calls' = [i \in ChunkIds |-> 0]
  /\ saving' = None
  /\ found' = NothingFound
  /\ verified' = <<>>
  /\ produced' = [i \in ChunkIds |-> None]
  /\ cum_at_done' = <<>>
  /\ NoPipeline
  /\ UNCHANGED <<disk, external, cleanup_begun>>

NextCheck == CheckCheckpoint \/ Exit

SpecCheck == InitCheck /\ [][NextCheck]_vars

CheckpointEvents == SelectSeq(events, LAMBDA e : e.type = "checkpoint")

\* C33: a run with --check_checkpoint emits exactly one checkpoint event:
\* NONE when no manifest loads, INVALID:hash_mismatch when the stored
\* fingerprint is not that of the input, FOUND with the stored total and the
\* number of completed chunks otherwise; no step of it changes the manifest
\* or a chunk file, and it creates no backend, no encoder, no sink content
\* and no spool file.
C33_CheckModeOnlyReports ==
  /\ [](run > 0 =>
          /\ CheckpointEvents = <<CheckReport(load_checkpoint(state_json), args.input)>>
          /\ backend = "none" /\ mp3_export_proc = "none" /\ spool_path = "none"
          /\ sink = <<>>)
  /\ [][UNCHANGED disk]_vars

\* The same without the count of events: what the run leaves alone.
CheckModeFrame ==
  /\ [](run > 0 =>
          /\ backend = "none" /\ mp3_export_proc = "none" /\ spool_path = "none"
          /\ sink = <<>>
          /\ (exc = "" => CheckpointEvents
                            = <<CheckReport(load_checkpoint(state_json), args.input)>>))
  /\ [][UNCHANGED disk]_vars

\* The chunk file was saved by a run with the input fingerprint and the nine
\* options of the current run.
SavedUnderThisRun(file) ==
  /\ file.by.epub_hash = compute_epub_hash(args.input)
  /\ \A key \in NineKeys : Get(file.by.config, key) = Get(args.config, key)

\* The step writes the content of a chunk file to the sink.
ReusesBlob ==
  /\ Len(sink') = Len(sink) + 1
  /\ sink'[Len(sink')].src = "blob"

BlobWrites == SelectSeq(sink, LAMBDA w : w.src = "blob")

InFlight ==
  {inference_queue[k] : k \in 1..Len(inference_queue)}
  \cup {pcm_queue[k] : k \in 1..Len(pcm_queue)}

\* The RuntimeErrors of main that guard against states the code does not
\* expect.
DefensiveErrors == {"mp3_not_writable", "invalid_chunk_index"}

\* C35: for every format, --checkpoint/--resume and pipeline mode no
\* defensive error is raised and none of their conditions holds where it is
\* tested: run_inference_overlap3 is entered with a running streaming
\* encoder; inside the sequential loop exactly one of streaming encoder and
\* spool file is there, the one use_mp3_stream selects; at the export M4B and
\* spooled MP3 have their spool file and streamed MP3 its encoder; every
\* message between the threads is a start, audio or done message with an
\* index of a chunk, or the end message.
C35_DefensiveErrorsUnreachable ==
  /\ exc \notin DefensiveErrors
  /\ (pc = "ov_setup" => mp3_export_proc = "running")
  /\ (InSequentialLoop =>
        /\ (mp3_export_proc = "running") # (spool_path = "exists")
        /\ (mp3_export_proc = "running") = use_mp3_stream)
  /\ (pc = "export" =>
        /\ (args.config["format"] = "m4b" => spool_path = "exists")
        /\ (args.config["format"] = "mp3" /\ ~use_mp3_stream => spool_path = "exists")
        /\ (args.config["format"] = "mp3" /\ use_mp3_stream => mp3_export_proc = "running"))
  /\ \A m \in InFlight :
       /\ m.kind \in {"start", "audio", "done", "end"}
       /\ (m.kind # "end" => ~InvalidIndex(m.idx))

\* An overlapped run at its export: the controller took messages of the
\* pipeline and the streaming encoder is running.
C35_Witness ==
  /\ args.pipeline_mode = "overlap3"
  /\ pc = "export"
  /\ mp3_export_proc = "running"
  /\ \E k \in 1..Len(observed) : observed[k].kind = "done"

\* The current_chunk values of the progress events of the run, in order.
ProgressCounts ==
  LET ps == SelectSeq(events, LAMBDA e : e.type = "progress")
  IN [k \in 1..Len(ps) |-> ps[k].idx]

\* C36: in both modes the k-th progress event carries current_chunk = k;
\* there is exactly one for each chunk finished so far, reused or inferred,
\* and the chunks finish in the order of their indices; a run that emitted
\* done has emitted total_chunks progress events, the last with
\* current_chunk = total_chunks; and in overlapped mode every chunk that has
\* its progress event has all of its audio in the sink.
C36_ProgressCountsFinishedChunks ==
  /\ \A k \in 1..Len(ProgressCounts) : ProgressCounts[k] = k
  /\ Len(ProgressCounts) = Len(cum_at_done)
  /\ \A k \in 1..Len(cum_at_done) : cum_at_done[k][1] = k - 1
  /\ (DonePositions # {} =>
        /\ total_chunks > 0
        /\ Len(ProgressCounts) = total_chunks
        /\ ProgressCounts[total_chunks] = total_chunks)
  /\ (args.pipeline_mode = "overlap3" =>
        \A k \in 1..Len(cum_at_done) :
          /\ produced[cum_at_done[k][1]] # None
          /\ SamplesOf(cum_at_done[k][1]) = produced[cum_at_done[k][1]].data)

\* An overlapped run of two chunks has emitted done after the progress
\* events 1 and 2, the audio of both chunks being in the sink.
C36_Witness ==
  /\ args.pipeline_mode = "overlap3"
  /\ DonePositions # {}
  /\ ProgressCounts = <<1, 2>>
  /\ \A i \in Indices : SamplesOf(i) # <<>>

\* The positions of the events of the given type and code about chunk i.
ChunkEventPositions(type, code, i) == PositionsOf(Event(type, code, i))

\* The step emits the SAVED event of the chunk at idx.
EmitsSaved ==
  /\ Len(events') > Len(events)
  /\ \E k \in (Len(events) + 1)..Len(events') : events'[k] = Event("checkpoint", "SAVED", idx)

\* C37: in a sequential run with checkpointing that has left the inference
\* loop every chunk index has exactly one REUSED or SAVED event; the step
\* that emits SAVED for an index finds the chunk file of the index loadable
\* and a manifest on disk that lists the index; MISSING_AUDIO for an index
\* is emitted only in a run that took over a completed set with the index
\* in it while the chunk file did not load, and SAVED for the index follows
\* it; and the indices with a timing event are those that were inferred.
C37_CheckpointEventsPerChunk ==
  /\ [](use_checkpoint /\ args.pipeline_mode = "sequential" =>
          /\ (pc \in {"concat", "export", "cleanup", "done"} =>
                \A i \in Indices :
                  /\ Cardinality(ChunkEventPositions("checkpoint", "REUSED", i))
                       + Cardinality(ChunkEventPositions("checkpoint", "SAVED", i)) = 1
                  /\ \A k \in ChunkEventPositions("checkpoint", "MISSING_AUDIO", i) :
                       \E l \in ChunkEventPositions("checkpoint", "SAVED", i) : k < l)
          /\ \A i \in Indices :
               /\ (ChunkEventPositions("checkpoint", "MISSING_AUDIO", i) # {} =>
                     /\ Accepted
                     /\ i \in SetOf(found.state_json.completed_chunks)
                     /\ i \notin found.loadable)
               /\ (ChunkEventPositions("timing", "infer", i) # {} =>
                     /\ generate_calls[i] = 1
                     /\ ChunkEventPositions("checkpoint", "REUSED", i) = {}))
  /\ [][EmitsSaved =>
          /\ load_chunk_audio(chunk_npy[idx]) # None
          /\ load_checkpoint(state_json) # None
          /\ idx \in SetOf(state_json.completed_chunks)]_vars

\* A resumed run has left the loop: chunk 0 was reused, the chunk file of
\* chunk 1 did not load and chunk 1 was inferred and saved.
C37_Witness ==
  /\ use_checkpoint /\ args.pipeline_mode = "sequential"
  /\ pc = "concat"
  /\ ChunkEventPositions("checkpoint", "REUSED", 0) # {}
  /\ ChunkEventPositions("checkpoint", "MISSING_AUDIO", 1) # {}
  /\ ChunkEventPositions("checkpoint", "SAVED", 1) # {}
  /\ ChunkEventPositions("timing", "infer", 0) = {}

\* The run was started with --checkpoint and without --resume.
CheckpointOnly == pc # "idle" /\ args.checkpoint /\ ~args.resume

\* The step is the first call of backend.generate of the run.
FirstInference ==
  /\ \A i \in ChunkIds : generate_calls[i] = 0
  /\ \E i \in ChunkIds : generate_calls'[i] = 1

\* C38: a run with --checkpoint and without --resume starts with an empty
\* completed set, emits no RESUMING, REUSED or MISSING_AUDIO event and writes
\* no chunk file to the sink; when it calls backend.generate for the first
\* time the manifest on disk is its own, with an empty completed set; and
\* when it has left the loop every chunk has been inferred.
C38_CheckpointWithoutResumeStartsFresh ==
  /\ [](CheckpointOnly =>
          /\ (pc \in {"init", "ckpt_init"} => completed_chunks = {})
          /\ BlobWrites = <<>>
          /\ \A k \in 1..Len(events) :
               events[k].type = "checkpoint" => events[k].code \in {"SAVED", "CLEANED"}
          /\ (pc \in {"concat", "export", "cleanup", "done"} =>
                \A i \in Indices : Inferred(i)))
  /\ [][CheckpointOnly /\ FirstInference =>
          /\ load_checkpoint(state_json) # None
          /\ state_json.completed_chunks = <<>>
          /\ state_json.epub_hash = compute_epub_hash(args.input)
          /\ state_json.config = args.config
          /\ state_json.total_chunks = total_chunks]_vars

\* A second run with --checkpoint alone infers chunk 0 although a chunk file
\* of an earlier run is on disk for it; the manifest lists nothing.
C38_Witness ==
  /\ CheckpointOnly
  /\ run = 2
  /\ pc = "seq_gen" /\ idx = 0
  /\ generate_calls[0] = 1
  /\ load_chunk_audio(chunk_npy[0]) # None
  /\ load_checkpoint(state_json) # None
  /\ state_json.completed_chunks = <<>>

====
